---- MODULE Spec2Model ----
(***************************************************************************)
(* Model of src/core.py (class FacebookAPI) and of the session store of    *)
(* src/config.py: the login / token-acquisition state machine, the         *)
(* two-phase friends dump (dump_friends), and validate_login with the      *)
(* logout App._validate_current_login (src/FILE.py) performs after it.     *)
(*                                                                         *)
(* Python strings are sequences of one-character strings, so that          *)
(* formatting ("id|name"), prefix tests (str.startswith), ordering         *)
(* (sorted) and pattern searches are computed and not assumed.             *)
(* Optional[str] values are None or Str(s).                                *)
(***************************************************************************)
EXTENDS Integers, Sequences, FiniteSets, TLC

VARIABLES
    \* ---- FacebookAPI object and session store ----
    token,            \* self._token  (Optional[str])
    cookie,           \* self._cookie (Optional[str])
    session,          \* the session file of Config: token, cookie, login_check
    \* ---- login_with_credentials / login_with_cookie ----
    lpc,              \* "idle" | "cred" (inside the retry loop) | "returned"
    retry_count,      \* local retry_count of login_with_credentials
    login_requests,   \* POSTs to LOGIN_API_URL in the current call, by outcome
    first_response,   \* outcome class of the first login response of the call
    extract_log,      \* token-extraction requests of the current call:
                      \* <<endpoint, cookie sent, token yielded>>
    login_result,     \* value returned by the last login call
    \* ---- dump_friends ----
    pc,               \* "idle" | "phase1" | "phase2" | "done" | "raised" (an exception
                      \* left dump_friends)
    uids,             \* parameter uids
    unsep_file,       \* parameter unsep_file: "None" or a path
    sep_prefixes,     \* parameter sep_prefixes: NoList or GivenList(<<...>>)
    recursive,        \* parameter recursive
    responses,        \* the gathered responses of the running phase (Pending = in flight)
    all_friend_ids,   \* local all_friend_ids
    target_uids,      \* local target_uids
    next_response,    \* index of the next Phase-2 response the loop examines
    written_main,     \* local written_main
    written_unsep,    \* local written_unsep
    line_count,       \* local line_count
    line_count_un,    \* local line_count_un
    output_lines,     \* lines appended to output_file by this invocation, in order
    unsep_lines,      \* lines appended to unsep_file by this invocation, in order
    requested,        \* friends-fetch requests issued: <<phase, uid>>, in order
    dump_result,      \* value returned by dump_friends (NoResult until it returns)
    \* ---- validate_login ----
    vpc,              \* "idle" | "loop" (inside "for uid in test_uids")
    called_by,        \* who called validate_login last: "none" | "api" | "app"
                      \* ("app": App._validate_current_login)
    uid_file,         \* .uid.txt at the last call: absent, unreadable, or its lines
    next_uid,         \* index of the line of test_uids the loop takes next
    blocked_detected, \* local blocked_detected
    probe_log,        \* requests of the current call, in order: [uid, reply]
    validate_result,  \* value returned by validate_login (NoValidation before a call)
    advisory,         \* advice shown after the loop of the last call: "none" | "blocked" | "other"
    \* ---- App (FILE.py) ----
    screen,           \* where App is: "start" (run, before the first validation) |
                      \* "login" (_main_login_menu) | "validating" (after a login) |
                      \* "home" (_home_menu) | "exit"
    confirmed         \* the credentials validate_login last returned success for, since
                      \* the last login or logout (Unconfirmed when there are none)

authVars == <<token, cookie, session>>
loginVars == <<lpc, retry_count, login_requests, first_response, extract_log, login_result>>
dumpVars == <<pc, uids, unsep_file, sep_prefixes, recursive, responses, all_friend_ids,
              target_uids, next_response, written_main, written_unsep, line_count,
              line_count_un, output_lines, unsep_lines, requested, dump_result>>
valVars == <<vpc, called_by, uid_file, next_uid, blocked_detected, probe_log, validate_result,
             advisory>>
appVars == <<screen, confirmed>>
vars == <<authVars, loginVars, dumpVars, valVars, appVars>>

-----------------------------------------------------------------------------
(* Python values *)

None == [none |-> TRUE]
Str(s) == [none |-> FALSE, s |-> s]

\* bool(v) of an Optional[str]
Truthy(v) == ~v.none /\ v.s # <<>>

\* code points of the characters the model's identifiers use
CharCode == [c \in {"1", "5", "7", "9"} |->
               CASE c = "1" -> 49 [] c = "5" -> 53 [] c = "7" -> 55 [] c = "9" -> 57]

\* a < b for Python str (lexicographic by code point)
RECURSIVE StrLess(_, _)
StrLess(a, b) ==
    IF a = <<>> THEN b # <<>>
    ELSE IF b = <<>> THEN FALSE
    ELSE IF Head(a) = Head(b) THEN StrLess(Tail(a), Tail(b))
    ELSE CharCode[Head(a)] < CharCode[Head(b)]

\* sorted(S) without reverse=True: the ascending order
RECURSIVE SortedReverse_Ascending(_)
SortedReverse_Ascending(S) ==
    IF S = {} THEN <<>>
    ELSE LET m == CHOOSE x \in S : \A y \in S \ {x} : StrLess(x, y)
         IN <<m>> \o SortedReverse_Ascending(S \ {m})

\* sorted(S, reverse=True) of a set of strings
RECURSIVE SortedReverse(_)
SortedReverse(S) ==
    IF S = {} THEN <<>>
    ELSE LET m == CHOOSE x \in S : \A y \in S \ {x} : StrLess(y, x)
         IN <<m>> \o SortedReverse(S \ {m})

\* s.startswith(p)
StartsWith(s, p) == Len(p) <= Len(s) /\ SubSeq(s, 1, Len(p)) = p

Range(q) == {q[i] : i \in DOMAIN q}

-----------------------------------------------------------------------------
(* Bounds and the values the remote side may return *)

\* longest seed list passed to dump_friends
MaxSeeds == 2

\* seed identifiers a caller may pass (one of them empty)
SeedIds == {<<"5">>, <<>>}

SeedLists == UNION {[1..n -> SeedIds] : n \in 0..MaxSeeds}

ID7 == <<"7">>
ID9 == <<"9">>
ID17 == <<"1", "7">>
Ann == <<"A", "n", "n">>
Bo == <<"B", "o">>

\* a friends-fetch in flight: no result yet
Pending == [pending |-> TRUE, none |-> TRUE]

\* _fetch_friends returning a JSON object {"error": ..., "friends": {"data": [...]}}
Json(err, data) == [none |-> FALSE, error |-> err, data |-> data]

RespAnn == Json(FALSE, <<[id |-> ID7, name |-> Ann]>>)
RespBoAnn == Json(FALSE, <<[id |-> ID9, name |-> Bo], [id |-> ID7, name |-> Ann]>>)
\* records of unexpected shape: no id, no name, a repeated record, an empty id
RespOdd == Json(FALSE, <<[name |-> Ann], [id |-> ID17], [id |-> ID17], [id |-> <<>>, name |-> Bo]>>)
\* an "error" member next to a friends list
RespErr == Json(TRUE, <<[id |-> ID9, name |-> Ann]>>)

\* a friends list holding a record that is not an object: {"friends": {"data": ["x"]}}
RespBadRecord == [none |-> FALSE, error |-> FALSE, data |-> <<>>, bad_record |-> TRUE]

\* what one friends-fetch may settle to (None: non-200 status, transport error, timeout)
FetchOutcomes == {None, RespAnn, RespBoAnn, RespOdd, RespErr, RespBadRecord}

\* friend.get('id') / friend['id'] on a record that is not an object raises
\* AttributeError / TypeError, which dump_friends does not catch
Raises(response) == "bad_record" \in DOMAIN response

\* sep_prefixes: None, or a list
NoList == [none |-> TRUE]
GivenList(l) == [none |-> FALSE, list |-> l]
PrefixConfigs == {NoList, GivenList(<<>>), GivenList(<<<<"1">>, <<"9">>>>)}

\* bool(sep_prefixes)
ListTruthy(l) == ~l.none /\ l.list # <<>>

UnsepTargets == {"None", "unsep.txt"}

SampleToken == Str(<<"T">>)
SampleCookie == Str(<<"c">>)
\* values self._token / self._cookie may hold when dump_friends is called
TokenStates == {None, Str(<<>>), SampleToken}
CookieStates == {None, Str(<<>>), SampleCookie}

NoResult == <<-1, -1>>

-----------------------------------------------------------------------------
(* FacebookAPI.is_logged_in *)

\* variant: only the token is looked at
is_logged_in_TokenOnly == Truthy(token)

is_logged_in == Truthy(token) /\ Truthy(cookie)

-----------------------------------------------------------------------------
(* dump_friends *)

\* 'Unknown', the default of friend.get('name', 'Unknown')
Unknown == <<"U", "n", "k", "n", "o", "w", "n">>

\* variant: the two fields in the other order
Item_Swapped(friend_id, friend_name) == friend_name \o <<"|">> \o friend_id

\* f"{friend_id}|{friend_name}"
Item(friend_id, friend_name) == friend_id \o <<"|">> \o friend_name

\* variant: all() in place of any()
MatchesPrefix_All(friend_id, prefixes) ==
    \A i \in DOMAIN prefixes : StartsWith(friend_id, prefixes[i])

\* any(friend_id.startswith(p) for p in sep_prefixes)
MatchesPrefix(friend_id, prefixes) ==
    \E i \in DOMAIN prefixes : StartsWith(friend_id, prefixes[i])

\* Phase 1, inner loop: friend.get('id'), appended when truthy and not yet listed
RECURSIVE CollectIds(_, _)
CollectIds(friends, acc) ==
    IF friends = <<>> THEN acc
    ELSE LET friend == Head(friends)
             keep == /\ "id" \in DOMAIN friend
                     /\ friend.id # <<>>
                     /\ friend.id \notin Range(acc)
         IN CollectIds(Tail(friends), IF keep THEN Append(acc, friend.id) ELSE acc)

\* Phase 1, outer loop over the gathered responses
RECURSIVE Phase1Collect(_, _)
Phase1Collect(resps, acc) ==
    IF resps = <<>> THEN acc
    ELSE LET response == Head(resps)
             usable == ~response.none /\ ~response.error
         IN Phase1Collect(Tail(resps),
                          IF usable THEN CollectIds(response.data, acc) ELSE acc)

\* variant: the filter is applied whether or not a prefix list was given
Route_FilterAlways(friend_id, prefixes) ==
    IF ~prefixes.none /\ MatchesPrefix(friend_id, prefixes.list) THEN "main" ELSE "unsep"

\* which seen-set and batch a friend record goes to: "main", "unsep"
Route(friend_id, prefixes) ==
    IF ListTruthy(prefixes)
    THEN IF MatchesPrefix(friend_id, prefixes.list) THEN "main" ELSE "unsep"
    ELSE "main"

\* variant: the seen-sets are filled but never consulted
RECURSIVE ProcessFriends_NoSeenCheck(_, _, _)
ProcessFriends_NoSeenCheck(friends, prefixes, s) ==
    IF friends = <<>> THEN s
    ELSE LET friend == Head(friends)
             rest == Tail(friends)
         IN IF "id" \notin DOMAIN friend
            THEN ProcessFriends_NoSeenCheck(rest, prefixes, s)
            ELSE LET friend_name == IF "name" \in DOMAIN friend THEN friend.name ELSE Unknown
                     item == Item(friend.id, friend_name)
                 IN IF Route(friend.id, prefixes) = "main"
                    THEN ProcessFriends_NoSeenCheck(rest, prefixes,
                             [s EXCEPT !.wm = @ \cup {item}, !.nm = Append(@, item)])
                    ELSE ProcessFriends_NoSeenCheck(rest, prefixes,
                             [s EXCEPT !.wu = @ \cup {item}, !.nu = Append(@, item)])

\* variant: a line seen before on the main side is sent to the unseparated side
RECURSIVE ProcessFriends_RepeatToUnsep(_, _, _)
ProcessFriends_RepeatToUnsep(friends, prefixes, s) ==
    IF friends = <<>> THEN s
    ELSE LET friend == Head(friends)
             rest == Tail(friends)
         IN IF "id" \notin DOMAIN friend
            THEN ProcessFriends_RepeatToUnsep(rest, prefixes, s)
            ELSE LET friend_name == IF "name" \in DOMAIN friend THEN friend.name ELSE Unknown
                     item == Item(friend.id, friend_name)
                 IN IF Route(friend.id, prefixes) = "main" /\ item \notin s.wm
                    THEN ProcessFriends_RepeatToUnsep(rest, prefixes,
                             [s EXCEPT !.wm = @ \cup {item}, !.nm = Append(@, item)])
                    ELSE IF item \notin s.wu
                         THEN ProcessFriends_RepeatToUnsep(rest, prefixes,
                                  [s EXCEPT !.wu = @ \cup {item}, !.nu = Append(@, item)])
                         ELSE ProcessFriends_RepeatToUnsep(rest, prefixes, s)

\* variant: a record without an id ends the loop over the response's friends
RECURSIVE ProcessFriends_StopAtNoId(_, _, _)
ProcessFriends_StopAtNoId(friends, prefixes, s) ==
    IF friends = <<>> THEN s
    ELSE LET friend == Head(friends)
             rest == Tail(friends)
         IN IF "id" \notin DOMAIN friend
            THEN s
            ELSE LET friend_name == IF "name" \in DOMAIN friend THEN friend.name ELSE Unknown
                     item == Item(friend.id, friend_name)
                 IN IF Route(friend.id, prefixes) = "main"
                    THEN IF item \notin s.wm
                         THEN ProcessFriends_StopAtNoId(rest, prefixes,
                                  [s EXCEPT !.wm = @ \cup {item}, !.nm = Append(@, item)])
                         ELSE ProcessFriends_StopAtNoId(rest, prefixes, s)
                    ELSE IF item \notin s.wu
                         THEN ProcessFriends_StopAtNoId(rest, prefixes,
                                  [s EXCEPT !.wu = @ \cup {item}, !.nu = Append(@, item)])
                         ELSE ProcessFriends_StopAtNoId(rest, prefixes, s)

\* Phase 2, inner loop over one response's friends; s holds written_main (wm),
\* written_unsep (wu), new_main (nm) and new_unsep (nu)
RECURSIVE ProcessFriends(_, _, _)
ProcessFriends(friends, prefixes, s) ==
    IF friends = <<>> THEN s
    ELSE LET friend == Head(friends)
             rest == Tail(friends)
         IN IF "id" \notin DOMAIN friend
            THEN ProcessFriends(rest, prefixes, s)          \* KeyError: continue
            ELSE LET friend_name == IF "name" \in DOMAIN friend THEN friend.name ELSE Unknown
                     item == Item(friend.id, friend_name)
                 IN IF Route(friend.id, prefixes) = "main"
                    THEN IF item \notin s.wm
                         THEN ProcessFriends(rest, prefixes,
                                  [s EXCEPT !.wm = @ \cup {item}, !.nm = Append(@, item)])
                         ELSE ProcessFriends(rest, prefixes, s)
                    ELSE IF item \notin s.wu
                         THEN ProcessFriends(rest, prefixes,
                                  [s EXCEPT !.wu = @ \cup {item}, !.nu = Append(@, item)])
                         ELSE ProcessFriends(rest, prefixes, s)

\* variant: Phase 1 appends the friends it discovers to the main file
RECURSIVE Phase1Lines_Discovered(_)
Phase1Lines_Discovered(resps) ==
    IF resps = <<>> THEN <<>>
    ELSE LET response == Head(resps)
             ids == IF response.none \/ response.error THEN <<>>
                    ELSE CollectIds(response.data, <<>>)
         IN [i \in 1..Len(ids) |-> Item(ids[i], Unknown)] \o Phase1Lines_Discovered(Tail(resps))

\* the lines the Phase-1 loop appends to an output file: it only collects identifiers
Phase1Lines(resps) == <<>>

\* variant: the wait ends when the first fetch has settled
AllSettled_FirstCompleted ==
    responses = <<>> \/ \E i \in DOMAIN responses : responses[i] # Pending

\* await asyncio.gather(*tasks): every fetch of the phase has settled
AllSettled == \A i \in DOMAIN responses : responses[i] # Pending

\* variant: every entry of the list is requested a second time
Fetches_Retried(phase, list) == [i \in 1..(2 * Len(list)) |-> <<phase, list[(i + 1) \div 2]>>]

\* the requests one phase issues: one _fetch_friends per entry of the list
Fetches(phase, list) == [i \in 1..Len(list) |-> <<phase, list[i]>>]

InFlight(list) == [i \in 1..Len(list) |-> Pending]

\* the call and its first statements: the is_logged_in check, then the Phase-1 fan-out
DumpFriends(u, uf, sp, rec) ==
    /\ pc = "idle"
    /\ uids' = u
    /\ unsep_file' = uf
    /\ sep_prefixes' = sp
    /\ recursive' = rec
    /\ IF ~is_logged_in
       THEN /\ dump_result' = <<0, 0>>
            /\ pc' = "done"
            /\ UNCHANGED <<responses, requested>>
       ELSE /\ pc' = "phase1"
            /\ responses' = InFlight(u)
            /\ requested' = Fetches(1, u)
            /\ UNCHANGED dump_result
    /\ UNCHANGED <<all_friend_ids, target_uids, next_response, written_main,
                   written_unsep, line_count, line_count_un, output_lines, unsep_lines>>
    /\ UNCHANGED <<authVars, loginVars, valVars>>
    /\ UNCHANGED appVars

\* variant: results are collected in the order of completion (as by as_completed)
Gathered_AsCompleted(resps, i, r) ==
    LET first == CHOOSE j \in DOMAIN resps :
                     resps[j] = Pending /\ \A k \in 1..(j - 1) : resps[k] # Pending
    IN [resps EXCEPT ![first] = r]

\* asyncio.gather: the result of task i is element i of the returned list
Gathered(resps, i, r) == [resps EXCEPT ![i] = r]

\* one fetch of the running phase settles (asyncio.gather collects it in list order)
FetchSettle(i, r) ==
    /\ pc \in {"phase1", "phase2"}
    /\ i \in DOMAIN responses
    /\ responses[i] = Pending
    /\ responses' = Gathered(responses, i, r)
    /\ UNCHANGED <<pc, uids, unsep_file, sep_prefixes, recursive, all_friend_ids,
                   target_uids, next_response, written_main, written_unsep, line_count,
                   line_count_un, output_lines, unsep_lines, requested, dump_result>>
    /\ UNCHANGED <<authVars, loginVars, valVars>>
    /\ UNCHANGED appVars

\* after the Phase-1 gather: the candidate union, the early return, the Phase-2 fan-out
Phase1Gathered ==
    /\ pc = "phase1"
    /\ AllSettled
    /\ LET ids == Phase1Collect(responses, <<>>)
           sorted == SortedReverse(Range(ids))
           targets == IF recursive THEN sorted ELSE uids
       IN IF \E i \in DOMAIN responses :
                 ~responses[i].none /\ ~responses[i].error /\ Raises(responses[i])
          THEN /\ pc' = "raised"
               /\ UNCHANGED <<all_friend_ids, target_uids, responses, requested, output_lines,
                              dump_result>>
          ELSE IF ids = <<>>
          THEN /\ dump_result' = <<0, 0>>
               /\ pc' = "done"
               /\ UNCHANGED <<all_friend_ids, target_uids, responses, requested, output_lines>>
          ELSE /\ all_friend_ids' = sorted
               /\ output_lines' = output_lines \o Phase1Lines(responses)
               /\ target_uids' = targets
               /\ responses' = InFlight(targets)
               /\ requested' = requested \o Fetches(2, targets)
               /\ pc' = "phase2"
               /\ UNCHANGED dump_result
    /\ UNCHANGED <<uids, unsep_file, sep_prefixes, recursive, next_response, written_main,
                   written_unsep, line_count, line_count_un, unsep_lines>>
    /\ UNCHANGED <<authVars, loginVars, valVars>>
    /\ UNCHANGED appVars

\* variant: the file is opened with mode 'w'
AppendLines_Truncating(file, lines) == lines

\* aiofiles.open(path, 'a') and f.write: the lines go to the end of the file
AppendLines(file, lines) == file \o lines

\* variant: the counter holds the size of the last batch
Counted_LastBatch(count, batch) == Len(batch)

\* line_count += len(new_main), line_count_un += len(new_unsep)
Counted(count, batch) == count + Len(batch)

\* one iteration of "for response in responses" of Phase 2
Phase2Response ==
    /\ pc = "phase2"
    /\ AllSettled
    /\ next_response <= Len(responses)
    /\ LET response == responses[next_response]
       IN IF response.none
          THEN /\ next_response' = next_response + 1
               /\ UNCHANGED <<pc, written_main, written_unsep, line_count, line_count_un,
                              output_lines, unsep_lines>>
          ELSE IF Raises(response)
          THEN /\ pc' = "raised"
               /\ UNCHANGED <<next_response, written_main, written_unsep, line_count,
                              line_count_un, output_lines, unsep_lines>>
          ELSE LET s == ProcessFriends(response.data, sep_prefixes,
                            [wm |-> written_main, wu |-> written_unsep,
                             nm |-> <<>>, nu |-> <<>>])
                   write_unsep == s.nu # <<>> /\ unsep_file # "None"
               IN /\ written_main' = s.wm
                  /\ written_unsep' = s.wu
                  /\ output_lines' = AppendLines(output_lines, s.nm)
                  /\ line_count' = Counted(line_count, s.nm)
                  /\ unsep_lines' = IF write_unsep THEN AppendLines(unsep_lines, s.nu)
                                    ELSE unsep_lines
                  /\ line_count_un' = IF write_unsep THEN Counted(line_count_un, s.nu)
                                      ELSE line_count_un
                  /\ next_response' = next_response + 1
                  /\ UNCHANGED pc
    /\ UNCHANGED <<uids, unsep_file, sep_prefixes, recursive, responses,
                   all_friend_ids, target_uids, requested, dump_result>>
    /\ UNCHANGED <<authVars, loginVars, valVars>>
    /\ UNCHANGED appVars

\* return line_count, line_count_un
DumpReturn ==
    /\ pc = "phase2"
    /\ AllSettled
    /\ next_response > Len(responses)
    /\ dump_result' = <<line_count, line_count_un>>
    /\ pc' = "done"
    /\ UNCHANGED <<uids, unsep_file, sep_prefixes, recursive, responses, all_friend_ids,
                   target_uids, next_response, written_main, written_unsep, line_count,
                   line_count_un, output_lines, unsep_lines, requested>>
    /\ UNCHANGED <<authVars, loginVars, valVars>>
    /\ UNCHANGED appVars


-----------------------------------------------------------------------------
(* Login: values the remote side may return *)

\* MAX_API_RETRIES
MAX_API_RETRIES == 10

\* cookies a user may enter or the login endpoint may return; the last character
\* names the account the cookie belongs to
CookiePlain == <<"c", "=", "1">>
CookieWithSb == <<"s", "b", "=", "x", ";", "c", "=", "2">>
CookieEmptySb == <<"s", "b", "=", ";", "c", "=", "1">>
\* no field named "sb", but a field whose name ends in "sb"
CookieLookalike == <<"x", "s", "b", "=", "1", ";", "c", "=", "1">>
CookieInputs == {CookiePlain, CookieWithSb, CookieEmptySb, CookieLookalike}

Account(c) == c[Len(c)]

\* OAuth-status probe: the response headers hold "access_token":"<value>" or do not
OauthReplies(c) == {[has |-> FALSE], [has |-> TRUE, value |-> <<"P", Account(c)>>]}

\* token-resolution endpoint: no usable reply, or JSON {status, data: {access_token}}
ApiReplies(c) ==
    {[json |-> FALSE],
     [json |-> TRUE, status |-> "success", access_token |-> Str(<<"S", Account(c)>>)],
     [json |-> TRUE, status |-> "success", access_token |-> Str(<<>>)],
     [json |-> TRUE, status |-> "error", access_token |-> Str(<<"S", Account(c)>>)]}

MsgCheckpoint == <<"C", "h", "e", "c", "k", "P", "o", "i", "n", "t">>
MsgWrong == <<"W", "r", "o", "n", "g", " ", "p", "a", "s", "s">>
MsgBoth == <<"I", "n", "v", "a", "l", "i", "d", " ", "t", "w", "o", "-", "f", "a", "c", "t", "o", "r">>
MsgOther == <<"b", "u", "s", "y">>

\* a parsed login response: status, data.cookies, message (None: member absent)
LoginJson(st, ck, msg) ==
    [kind |-> "body", proxy |-> FALSE, json |-> TRUE, status |-> st, cookies |-> ck,
     message |-> msg]

\* what one POST to LOGIN_API_URL may give
LoginReplies ==
    {[kind |-> "timeout"],                                 \* requests.exceptions.Timeout
     [kind |-> "exception"],                               \* any other exception of the request
     [kind |-> "body", proxy |-> TRUE],                    \* body holds "SOCKSHTTPSConnectionPool"
     [kind |-> "body", proxy |-> FALSE, json |-> FALSE],   \* body is not JSON
     LoginJson("success", Str(CookiePlain), None),
     LoginJson("success", Str(CookieWithSb), None),
     LoginJson("success", None, None),
     LoginJson("error", None, Str(MsgCheckpoint)),
     LoginJson("error", None, Str(MsgWrong)),
     LoginJson("error", None, Str(MsgBoth)),
     LoginJson("error", None, Str(MsgOther))}

NoReply == [kind |-> "none"]

NoLoginResult == [fn |-> "none", success |-> FALSE, status |-> [code |-> "none"]]

LoginResult(fn, ok, code) == [fn |-> fn, success |-> ok, status |-> [code |-> code]]

EmptySession == [token |-> None, cookie |-> None, login_check |-> <<>>]

\* a session file left by an earlier successful login
StoredSession ==
    [token |-> Str(<<"P", "1">>), cookie |-> Str(<<"s", "b", "=", "y", ";", "c", "=", "1">>),
     login_check |-> <<>>]

-----------------------------------------------------------------------------
(* Config: the session store *)

\* variant: the value is not written
save_token_NotWritten(sess, value) == sess

\* Config.save_token: read the session, set 'token', write it back
save_token(sess, value) == [sess EXCEPT !.token = value]

\* Config.save_cookie
save_cookie(sess, value) == [sess EXCEPT !.cookie = value]

\* variant: only the token is removed
clear_credentials_TokenOnly(sess) == [sess EXCEPT !.token = None]

\* Config.save_login_check
save_login_check(sess, friend_ids) == [sess EXCEPT !.login_check = friend_ids]

\* Config.clear_credentials: the session file is removed
clear_credentials(sess) == EmptySession

-----------------------------------------------------------------------------
(* Token extraction *)

\* _extract_token_from_cookie: the token found in str(response.headers), else None
extract_token_from_cookie(reply) == IF reply.has THEN Str(reply.value) ELSE None

\* _extract_token_from_api
extract_token_from_api(reply) ==
    IF reply.json /\ reply.status = "success" /\ Truthy(reply.access_token)
    THEN reply.access_token
    ELSE None

\* re.search(r'sb=[^;]+', cookie)
HasSb(c) ==
    \E i \in 1..(Len(c) - 3) :
        c[i] = "s" /\ c[i + 1] = "b" /\ c[i + 2] = "=" /\ c[i + 3] # ";"

SbPrefix == <<"s", "b", "=", "B", "y", ".", "S", "h", "a", "j", "o", "N", "-", "4", "0", "4",
              ".", "O", "f", "f", "i", "c", "i", "a", "L", ";">>

\* login_with_cookie, first statement: the 'sb=' field is put in front when missing
EnsureSb(c) == IF HasSb(c) THEN c ELSE SbPrefix \o c

\* both extraction attempts made whatever the first one yields
ExtractToken_BothAlways(c, oauth, api) ==
    LET first == extract_token_from_cookie(oauth)
        second == extract_token_from_api(api)
    IN [token |-> IF Truthy(first) THEN first ELSE second,
        log |-> <<<<"oauth", c, first>>, <<"api", c, second>>>>]

\* the two extraction attempts for cookie c: the token obtained (or None) and the
\* requests made, each with what it yielded
ExtractToken(c, oauth, api) ==
    LET first == extract_token_from_cookie(oauth)
        second == extract_token_from_api(api)
    IN IF Truthy(first)
       THEN [token |-> first, log |-> <<<<"oauth", c, first>>>>]
       ELSE [token |-> second, log |-> <<<<"oauth", c, first>>, <<"api", c, second>>>>]

-----------------------------------------------------------------------------
(* login_with_credentials: classification of a login response *)

\* str.lower(), for the letters the modelled messages use
LowerChar(c) ==
    CASE c = "A" -> "a" [] c = "B" -> "b" [] c = "C" -> "c" [] c = "E" -> "e"
      [] c = "I" -> "i" [] c = "P" -> "p" [] c = "W" -> "w" [] OTHER -> c

Lower(m) == [i \in 1..Len(m) |-> LowerChar(m[i])]

\* sub in m
Contains(m, sub) ==
    \E i \in 1..(Len(m) - Len(sub) + 1) : SubSeq(m, i, i + Len(sub) - 1) = sub

KwCheckpoint == <<"c", "h", "e", "c", "k", "p", "o", "i", "n", "t">>
KwTwoFactor == <<"t", "w", "o", "-", "f", "a", "c", "t", "o", "r">>
KwInvalid == <<"i", "n", "v", "a", "l", "i", "d">>
KwIncorrect == <<"i", "n", "c", "o", "r", "r", "e", "c", "t">>
KwWrong == <<"w", "r", "o", "n", "g">>

\* variant: the credential words are looked for before the checkpoint words
ClassifyFailure_InvalidFirst(data) ==
    LET error_msg == IF data.message.none THEN <<>> ELSE Lower(data.message.s)
    IN IF \/ Contains(error_msg, KwInvalid)
          \/ Contains(error_msg, KwIncorrect)
          \/ Contains(error_msg, KwWrong)
       THEN [code |-> "INVALID_CREDENTIALS"]
       ELSE IF Contains(error_msg, KwCheckpoint) \/ Contains(error_msg, KwTwoFactor)
       THEN [code |-> "CHECKPOINT"]
       ELSE IF data.message.none THEN [code |-> "LOGIN_FAILED"]
       ELSE [code |-> "MESSAGE", text |-> data.message.s]

\* the status returned for a parsed response that is no success
ClassifyFailure(data) ==
    LET error_msg == IF data.message.none THEN <<>> ELSE Lower(data.message.s)
    IN IF Contains(error_msg, KwCheckpoint) \/ Contains(error_msg, KwTwoFactor)
       THEN [code |-> "CHECKPOINT"]
       ELSE IF \/ Contains(error_msg, KwInvalid)
               \/ Contains(error_msg, KwIncorrect)
               \/ Contains(error_msg, KwWrong)
       THEN [code |-> "INVALID_CREDENTIALS"]
       ELSE IF data.message.none THEN [code |-> "LOGIN_FAILED"]
       ELSE [code |-> "MESSAGE", text |-> data.message.s]

\* variant: every response that is no success is retried
IsTransient_AnyFailure(reply) ==
    \/ reply.kind = "timeout"
    \/ reply.kind = "body" /\ reply.proxy
    \/ reply.kind = "body" /\ ~reply.proxy /\ reply.json /\ reply.status # "success"

\* variant: every exception of the request is retried, not only a timeout
IsTransient_AnyException(reply) ==
    \/ reply.kind = "timeout"
    \/ reply.kind = "exception"
    \/ reply.kind = "body" /\ reply.proxy

\* the conditions that make the loop retry: the proxy-error substring in the body,
\* or requests.exceptions.Timeout
IsTransient(reply) ==
    \/ reply.kind = "timeout"
    \/ reply.kind = "body" /\ reply.proxy

\* variant: <= in the loop condition
WhileCondition_Inclusive(n) == n <= MAX_API_RETRIES

\* while retry_count < self.MAX_API_RETRIES
WhileCondition(n) == n < MAX_API_RETRIES

\* 'status' == 'success' and data.cookies truthy
IsLoginSuccess(reply) ==
    /\ reply.kind = "body" /\ ~reply.proxy /\ reply.json
    /\ reply.status = "success"
    /\ Truthy(reply.cookies)

Tally(reply) ==
    IF reply.kind = "timeout" THEN "timeout"
    ELSE IF reply.kind = "body" /\ reply.proxy THEN "proxy"
    ELSE "other"

-----------------------------------------------------------------------------
(* Login operations *)

\* variant: the cookie that was tried is kept in memory although no token was found
CookieOnFailure_Tried(old, tried) == Str(tried)

\* self._cookie when TOKEN_FAILED is returned: self.cookie is assigned only next to
\* self.token, after a token was found
CookieOnFailure(old, tried) == old

\* login_with_cookie
LoginWithCookie(c, oauth, api) ==
    /\ lpc = "idle"
    /\ pc = "idle"
    /\ LET ck == EnsureSb(c)
           x == ExtractToken(ck, oauth, api)
       IN /\ extract_log' = x.log
          /\ IF Truthy(x.token)
             THEN /\ cookie' = Str(ck)
                  /\ token' = x.token
                  /\ session' = save_token(save_cookie(session, Str(ck)), x.token)
                  /\ login_result' = LoginResult("cookie", TRUE, "SUCCESS")
             ELSE /\ login_result' = LoginResult("cookie", FALSE, "TOKEN_FAILED")
                  /\ cookie' = CookieOnFailure(cookie, ck)
                  /\ UNCHANGED <<token, session>>
    /\ retry_count' = 0
    /\ login_requests' = [proxy |-> 0, timeout |-> 0, other |-> 0]
    /\ first_response' = NoReply
    /\ UNCHANGED <<lpc, dumpVars, valVars>>
    /\ UNCHANGED appVars

\* login_with_credentials is called: retry_count = 0
LoginWithCredentials ==
    /\ lpc = "idle"
    /\ pc = "idle"
    /\ lpc' = "cred"
    /\ retry_count' = 0
    /\ login_requests' = [proxy |-> 0, timeout |-> 0, other |-> 0]
    /\ first_response' = NoReply
    /\ extract_log' = <<>>
    /\ login_result' = NoLoginResult
    /\ UNCHANGED <<authVars, dumpVars, valVars>>
    /\ UNCHANGED appVars

\* variant: only a proxy-error body counts against the ceiling
Retried_ProxyOnly(n, reply) == IF reply.kind = "timeout" THEN n ELSE n + 1

\* retry_count += 1, in the proxy-error branch and in the Timeout handler alike
Retried(n, reply) == n + 1

\* one iteration of the while loop: one POST to LOGIN_API_URL and what follows it,
\* up to the next POST or the return
LoginAttempt(reply, oauth, api) ==
    /\ lpc = "cred"
    /\ WhileCondition(retry_count)
    /\ login_requests' = [login_requests EXCEPT ![Tally(reply)] = @ + 1]
    /\ first_response' = IF first_response = NoReply THEN reply ELSE first_response
    /\ IF IsTransient(reply)
       THEN /\ retry_count' = Retried(retry_count, reply)
            /\ IF WhileCondition(Retried(retry_count, reply))
               THEN UNCHANGED <<lpc, login_result>>
               ELSE /\ lpc' = "idle"
                    /\ login_result' = LoginResult("credentials", FALSE, "MAX_RETRIES_EXCEEDED")
            /\ UNCHANGED <<authVars, extract_log>>
       ELSE /\ lpc' = "idle"
            /\ UNCHANGED retry_count
            /\ IF reply.kind = "exception" \/ ~reply.json
               THEN /\ login_result' = LoginResult("credentials", FALSE, "ERROR")
                    /\ UNCHANGED <<authVars, extract_log>>
               ELSE IF IsLoginSuccess(reply)
               THEN LET ck == reply.cookies.s
                        x == ExtractToken(ck, oauth, api)
                    IN /\ extract_log' = x.log
                       /\ IF Truthy(x.token)
                          THEN /\ cookie' = Str(ck)
                               /\ token' = x.token
                               /\ session' = save_token(save_cookie(session, Str(ck)), x.token)
                               /\ login_result' = LoginResult("credentials", TRUE, "SUCCESS")
                          ELSE /\ login_result' = LoginResult("credentials", FALSE, "TOKEN_FAILED")
                               /\ cookie' = CookieOnFailure(cookie, ck)
                               /\ UNCHANGED <<token, session>>
               ELSE /\ login_result' = [fn |-> "credentials", success |-> FALSE,
                                        status |-> ClassifyFailure(reply)]
                    /\ UNCHANGED <<authVars, extract_log>>
    /\ UNCHANGED <<dumpVars, valVars>>
    /\ UNCHANGED appVars

\* logout
Logout ==
    /\ lpc = "idle"
    /\ pc = "idle"
    /\ token' = None
    /\ cookie' = None
    /\ session' = clear_credentials(session)
    /\ login_result' = NoLoginResult
    /\ UNCHANGED <<lpc, retry_count, login_requests, first_response, extract_log, dumpVars,
                   valVars>>
    /\ UNCHANGED appVars

\* _load_session, run by the constructor of a FacebookAPI object
LoadSession ==
    /\ lpc = "idle"
    /\ pc = "idle"
    /\ token' = session.token
    /\ cookie' = session.cookie
    /\ login_result' = NoLoginResult
    /\ UNCHANGED <<session, lpc, retry_count, login_requests, first_response, extract_log,
                   dumpVars, valVars>>
    /\ UNCHANGED appVars

-----------------------------------------------------------------------------
(* validate_login: the probe file and what a probe request may give *)

\* most lines of a probe file
MaxProbes == 2

\* lines .uid.txt may hold: an identifier, a padded identifier, a blank line
ProbeLines == {<<"5">>, <<" ", "7", " ">>, <<" ">>}

\* .uid.txt: found in none of possible_paths, found but unreadable, or read as lines
FileAbsent == [state |-> "absent"]
FileUnreadable == [state |-> "unreadable"]
FileLines(l) == [state |-> "read", lines |-> l]
ProbeFiles ==
    {FileAbsent, FileUnreadable}
        \cup {FileLines(l) : l \in UNION {[1..n -> ProbeLines] : n \in 0..MaxProbes}}

\* str.strip() for blanks
RECURSIVE LStrip(_)
LStrip(s) == IF s # <<>> /\ Head(s) = " " THEN LStrip(Tail(s)) ELSE s

RECURSIVE RStrip(_)
RStrip(s) == IF s # <<>> /\ s[Len(s)] = " " THEN RStrip(SubSeq(s, 1, Len(s) - 1)) ELSE s

Strip(s) == RStrip(LStrip(s))

\* a parsed JSON object: data['friends']['data'] and the text of its other members
ProbeJson(friends, rest) == [kind |-> "json", friends |-> friends, rest |-> rest]

TextError == <<"E", "r", "r", "o", "r">>

ProbeTimeout == [kind |-> "timeout"]
\* connection failure, a body that is not JSON, JSON that is not an object
ProbeException == [kind |-> "exception"]
ProbeFriends == ProbeJson(<<[id |-> ID7, name |-> Ann]>>, <<>>)
ProbeTwoFriends == ProbeJson(<<[id |-> ID9, name |-> Bo], [id |-> ID7, name |-> Ann]>>, <<>>)
ProbeNoFriends == ProbeJson(<<>>, <<>>)
ProbeBlocked == ProbeJson(<<>>, TextError)
ProbeBlockedFriends == ProbeJson(<<[id |-> ID9, name |-> Bo]>>, TextError)
\* a friend record without an 'id' member
ProbeNoId == ProbeJson(<<[name |-> Ann]>>, <<>>)

ProbeReplies == {ProbeTimeout, ProbeException, ProbeFriends, ProbeTwoFriends, ProbeNoFriends,
                 ProbeBlocked, ProbeBlockedFriends, ProbeNoId}

\* str(record): member names and values, separated
RecordText(f) ==
    (IF "id" \in DOMAIN f THEN <<"i", "d", ":">> \o f.id \o <<",">> ELSE <<>>)
        \o (IF "name" \in DOMAIN f THEN <<"n", "a", "m", "e", ":">> \o f.name \o <<",">>
            ELSE <<>>)

RECURSIVE FriendsText(_)
FriendsText(friends) ==
    IF friends = <<>> THEN <<>>
    ELSE RecordText(Head(friends)) \o FriendsText(Tail(friends))

\* str(data)
Serialized(reply) ==
    <<"f", "r", "i", "e", "n", "d", "s", ":">> \o FriendsText(reply.friends)
        \o <<";">> \o reply.rest

\* error_words
ErrorWords ==
    {<<"b", "l", "o", "c", "k", "e", "d">>, <<"m", "i", "s", "u", "s", "e">>,
     <<"a", "b", "u", "s", "i", "v", "e">>, <<"e", "x", "c", "e", "e", "d", "e", "d">>,
     <<"m", "i", "s", "u", "s", "i", "n", "g">>, <<"e", "r", "r", "o", "r">>}

\* variant: the friends list is looked at before the keywords
ProbeOutcome_FriendsFirst(reply) ==
    IF reply.kind = "timeout" THEN "timeout"
    ELSE IF reply.kind = "exception" THEN "error"
    ELSE IF reply.friends # <<>>
    THEN IF \E i \in DOMAIN reply.friends : "id" \notin DOMAIN reply.friends[i]
         THEN "error" ELSE "success"
    ELSE IF \E w \in ErrorWords : Contains(Lower(Serialized(reply)), w) THEN "blocked"
    ELSE "no_friends"

\* the branch one loop iteration takes for a reply
ProbeOutcome(reply) ==
    IF reply.kind = "timeout" THEN "timeout"
    ELSE IF reply.kind = "exception" THEN "error"
    ELSE IF \E w \in ErrorWords : Contains(Lower(Serialized(reply)), w) THEN "blocked"
    ELSE IF reply.friends = <<>> THEN "no_friends"
    ELSE IF \E i \in DOMAIN reply.friends : "id" \notin DOMAIN reply.friends[i]
    THEN "error"                      \* f['id'] raises KeyError
    ELSE "success"

\* [f['id'] for f in friends]
FriendIds(friends) == [i \in DOMAIN friends |-> friends[i].id]

\* variant: a timeout ends the loop
LoopControl_TimeoutBreaks(outcome) ==
    IF outcome = "success" THEN "return"
    ELSE IF outcome = "timeout" THEN "break"
    ELSE "continue"

\* how the loop goes on after an iteration
LoopControl(outcome) == IF outcome = "success" THEN "return" ELSE "continue"

ValidateResult(ok, ids) == [success |-> ok, friend_ids |-> ids]

NoValidation == [success |-> FALSE, friend_ids |-> <<>>, none |-> TRUE]

\* variant: a missing probe file makes validation fail
SkippedResult_Failure == ValidateResult(FALSE, <<>>)

\* the result when there is nothing to probe with
SkippedResult == ValidateResult(TRUE, <<>>)

\* variant: the application never logs out after a validation
LogsOutAfter_Never(success) == FALSE

\* App._validate_current_login: "if not success: self._api.logout()"
LogsOutAfter(success) == ~success

-----------------------------------------------------------------------------
(* validate_login, and App._validate_current_login around it *)

\* token, cookie and session file when a validation called by `by` returns `success`:
\* the application logs out after a validation that did not succeed
AfterValidation(by, success, sess) ==
    IF by = "app" /\ LogsOutAfter(success)
    THEN [token |-> None, cookie |-> None, session |-> clear_credentials(sess)]
    ELSE [token |-> token, cookie |-> cookie, session |-> sess]

\* validate_login is called (by = "app": through App._validate_current_login), with
\* .uid.txt in state f: the statements before the loop
ValidateLogin(by, f) ==
    /\ vpc = "idle"
    /\ lpc = "idle"
    /\ pc = "idle"
    /\ called_by' = by
    /\ uid_file' = f
    /\ next_uid' = 1
    /\ blocked_detected' = FALSE
    /\ probe_log' = <<>>
    /\ advisory' = "none"
    /\ IF ~is_logged_in
       THEN \* (False, []); the application returns False without calling validate_login
            /\ validate_result' = IF by = "app" THEN NoValidation
                                  ELSE ValidateResult(FALSE, <<>>)
            /\ vpc' = "idle"
            /\ UNCHANGED authVars
       ELSE /\ IF f.state # "read" \/ f.lines = <<>>
               THEN LET after == AfterValidation(by, SkippedResult.success, session)
                    IN /\ validate_result' = SkippedResult
                       /\ vpc' = "idle"
                       /\ token' = after.token
                       /\ cookie' = after.cookie
                       /\ session' = after.session
               ELSE /\ validate_result' = NoValidation
                    /\ vpc' = "loop"
                    /\ UNCHANGED authVars
    /\ UNCHANGED <<loginVars, dumpVars>>
    /\ UNCHANGED appVars

\* the module-level wrapper validate_login(token, cookie): it assigns _api._token and
\* _api._cookie directly (no setter, so nothing is saved) and calls _api.validate_login();
\* dump_unlimited and dump_simple of the module start with the same two assignments
WrapperValidateLogin(t, c, f) ==
    /\ vpc = "idle"
    /\ lpc = "idle"
    /\ pc = "idle"
    /\ token' = t
    /\ cookie' = c
    /\ UNCHANGED session
    /\ called_by' = "wrapper"
    /\ uid_file' = f
    /\ next_uid' = 1
    /\ blocked_detected' = FALSE
    /\ probe_log' = <<>>
    /\ advisory' = "none"
    /\ IF ~(Truthy(t) /\ Truthy(c))
       THEN /\ validate_result' = ValidateResult(FALSE, <<>>)
            /\ vpc' = "idle"
       ELSE IF f.state # "read" \/ f.lines = <<>>
       THEN /\ validate_result' = SkippedResult
            /\ vpc' = "idle"
       ELSE /\ validate_result' = NoValidation
            /\ vpc' = "loop"
    /\ UNCHANGED <<loginVars, dumpVars>>
    /\ UNCHANGED appVars

\* variant: the two branches after the loop are tested in the other order
Advisory_OtherFirst(blocked, login_success) ==
    IF ~login_success THEN "other"
    ELSE IF blocked /\ ~login_success THEN "blocked"
    ELSE "none"

\* the advice shown after the loop: "try these cookies after 10 hours" when
\* blocked_detected, else "all ids failed, use a VPN or another cookie"
Advisory(blocked, login_success) ==
    IF blocked /\ ~login_success THEN "blocked"
    ELSE IF ~login_success THEN "other"
    ELSE "none"

\* one iteration of "for uid in test_uids" meeting `reply` when it makes a request
ProbeStep(reply) ==
    /\ vpc = "loop"
    /\ next_uid <= Len(uid_file.lines)
    /\ LET uid == Strip(uid_file.lines[next_uid])
           outcome == ProbeOutcome(reply)
           control == LoopControl(outcome)
       IN IF uid = <<>>
          THEN /\ next_uid' = next_uid + 1
               /\ UNCHANGED <<vpc, blocked_detected, probe_log, validate_result, authVars>>
          ELSE /\ probe_log' = Append(probe_log, [uid |-> uid, reply |-> reply])
               /\ blocked_detected' = (blocked_detected \/ outcome = "blocked")
               /\ IF control = "return"
                  THEN LET friend_ids == FriendIds(reply.friends)
                           after == AfterValidation(called_by, TRUE,
                                                    save_login_check(session, friend_ids))
                       IN /\ validate_result' = ValidateResult(TRUE, friend_ids)
                          /\ vpc' = "idle"
                          /\ token' = after.token
                          /\ cookie' = after.cookie
                          /\ session' = after.session
                          /\ UNCHANGED next_uid
                  ELSE /\ next_uid' = IF control = "break" THEN Len(uid_file.lines) + 1
                                      ELSE next_uid + 1
                       /\ UNCHANGED <<vpc, validate_result, authVars>>
    /\ UNCHANGED <<called_by, uid_file, advisory, loginVars, dumpVars>>
    /\ UNCHANGED appVars

\* the loop is over without a success: (False, [])
ValidateExhausted ==
    /\ vpc = "loop"
    /\ next_uid > Len(uid_file.lines)
    /\ validate_result' = ValidateResult(FALSE, <<>>)
    /\ advisory' = Advisory(blocked_detected, FALSE)
    /\ vpc' = "idle"
    /\ LET after == AfterValidation(called_by, FALSE, session)
       IN /\ token' = after.token
          /\ cookie' = after.cookie
          /\ session' = after.session
    /\ UNCHANGED <<called_by, uid_file, next_uid, blocked_detected, probe_log, loginVars,
                   dumpVars>>
    /\ UNCHANGED appVars

-----------------------------------------------------------------------------
(* App (FILE.py): run, _main_login_menu, _home_menu *)

Unconfirmed == [none |-> TRUE]

Creds(t, c) == [token |-> t, cookie |-> c]

\* seed lists and options App passes to dump_unlimited / dump_simple: _do_unlimited_dump
\* and _do_simple_dump return before the call when no identifier was collected
AppSeedLists == {u \in SeedLists : Len(u) = 1}

AppDumpModes ==
    {[uf |-> "None", sp |-> NoList, rec |-> TRUE],
     [uf |-> "unsep.txt", sp |-> GivenList(<<<<"1">>, <<"9">>>>), rec |-> TRUE],
     [uf |-> "None", sp |-> NoList, rec |-> FALSE]}

\* variant: the home menu is entered whatever the validation returned
ScreenAfterValidation_AlwaysHome(success) == "home"

\* "if self._validate_current_login(): ... self._home_menu()", else the login menu
ScreenAfterValidation(success) == IF success THEN "home" ELSE "login"

\* _validate_current_login has returned to run or to _main_login_menu
AppValidated ==
    /\ screen \in {"start", "validating"}
    /\ called_by = "app"
    /\ vpc = "idle"
    /\ screen' = ScreenAfterValidation(validate_result.success)
    /\ confirmed' = IF validate_result.success THEN Creds(token, cookie) ELSE Unconfirmed
    /\ called_by' = "none"
    /\ uid_file' = FileAbsent
    /\ next_uid' = 1
    /\ blocked_detected' = FALSE
    /\ probe_log' = <<>>
    /\ advisory' = "none"
    /\ validate_result' = NoValidation
    /\ UNCHANGED <<vpc, authVars, loginVars, dumpVars>>

\* _do_cookie_login / _do_id_pass_login have the result of the login call: on success
\* the menu goes on to validate; a failed cookie login logs out
AppLoginReturned ==
    /\ screen = "login"
    /\ lpc = "idle"
    /\ login_result # NoLoginResult
    /\ confirmed' = Unconfirmed
    /\ IF login_result.success
       THEN /\ screen' = "validating"
            /\ UNCHANGED authVars
       ELSE /\ screen' = "login"
            /\ IF login_result.fn = "cookie"
               THEN /\ token' = None
                    /\ cookie' = None
                    /\ session' = clear_credentials(session)
               ELSE UNCHANGED authVars
    /\ retry_count' = 0
    /\ login_requests' = [proxy |-> 0, timeout |-> 0, other |-> 0]
    /\ first_response' = NoReply
    /\ extract_log' = <<>>
    /\ login_result' = NoLoginResult
    /\ UNCHANGED <<lpc, dumpVars, valVars>>

\* _do_unlimited_dump / _do_simple_dump have the counts and return to the home menu
AppDumpReturned ==
    /\ screen = "home"
    /\ pc = "done"
    /\ pc' = "idle"
    /\ uids' = <<>>
    /\ unsep_file' = "None"
    /\ sep_prefixes' = NoList
    /\ recursive' = TRUE
    /\ responses' = <<>>
    /\ all_friend_ids' = <<>>
    /\ target_uids' = <<>>
    /\ next_response' = 1
    /\ written_main' = {}
    /\ written_unsep' = {}
    /\ line_count' = 0
    /\ line_count_un' = 0
    /\ output_lines' = <<>>
    /\ unsep_lines' = <<>>
    /\ requested' = <<>>
    /\ dump_result' = NoResult
    /\ UNCHANGED <<authVars, loginVars, valVars, appVars>>

\* an exception of the dump reaches run: "except Exception: ... sys.exit(1)"
AppDumpRaised ==
    /\ screen = "home"
    /\ pc = "raised"
    /\ screen' = "exit"
    /\ UNCHANGED <<confirmed, authVars, loginVars, dumpVars, valVars>>

\* choice K of the home menu: self._api.logout(), then the login menu
AppLogout ==
    /\ screen = "home"
    /\ pc = "idle"
    /\ token' = None
    /\ cookie' = None
    /\ session' = clear_credentials(session)
    /\ screen' = "login"
    /\ confirmed' = Unconfirmed
    /\ UNCHANGED <<loginVars, dumpVars, valVars>>

\* choice L of the login menu: sys.exit(0)
AppQuit ==
    /\ screen = "login"
    /\ lpc = "idle"
    /\ login_result = NoLoginResult
    /\ screen' = "exit"
    /\ UNCHANGED <<confirmed, authVars, loginVars, dumpVars, valVars>>

AppIdle ==
    /\ screen = "start"
    /\ confirmed = Unconfirmed

ValIdle ==
    /\ vpc = "idle"
    /\ called_by = "none"
    /\ uid_file = FileAbsent
    /\ next_uid = 1
    /\ blocked_detected = FALSE
    /\ probe_log = <<>>
    /\ advisory = "none"
    /\ validate_result = NoValidation

DumpIdle ==
    /\ pc = "idle"
    /\ uids = <<>>
    /\ unsep_file = "None"
    /\ sep_prefixes = NoList
    /\ recursive = TRUE
    /\ responses = <<>>
    /\ all_friend_ids = <<>>
    /\ target_uids = <<>>
    /\ next_response = 1
    /\ written_main = {}
    /\ written_unsep = {}
    /\ line_count = 0
    /\ line_count_un = 0
    /\ output_lines = <<>>
    /\ unsep_lines = <<>>
    /\ requested = <<>>
    /\ dump_result = NoResult

LoginIdle ==
    /\ lpc = "idle"
    /\ retry_count = 0
    /\ login_requests = [proxy |-> 0, timeout |-> 0, other |-> 0]
    /\ first_response = NoReply
    /\ extract_log = <<>>
    /\ login_result = NoLoginResult

\* a FacebookAPI object built over an empty or an earlier session file
Init ==
    /\ session \in {EmptySession, StoredSession}
    /\ token = session.token
    /\ cookie = session.cookie
    /\ LoginIdle
    /\ DumpIdle
    /\ ValIdle
    /\ AppIdle

Next ==
    \/ \E c \in CookieInputs : \E oauth \in OauthReplies(EnsureSb(c)), api \in ApiReplies(EnsureSb(c)) :
           LoginWithCookie(c, oauth, api)
    \/ LoginWithCredentials
    \/ \E reply \in LoginReplies :
           LET c == IF IsLoginSuccess(reply) THEN reply.cookies.s ELSE CookiePlain
           IN \E oauth \in OauthReplies(c), api \in ApiReplies(c) :
                  LoginAttempt(reply, oauth, api)
    \/ Logout
    \/ LoadSession

Spec == Init /\ [][Next]_vars

\* dump_friends called on an object holding any token / cookie values
DumpInit ==
    /\ token \in TokenStates
    /\ cookie \in CookieStates
    /\ session = EmptySession
    /\ LoginIdle
    /\ DumpIdle
    /\ ValIdle
    /\ AppIdle

DumpNext ==
    \/ \E u \in SeedLists, uf \in UnsepTargets, sp \in PrefixConfigs, rec \in BOOLEAN :
           DumpFriends(u, uf, sp, rec)
    \/ \E i \in 1..Len(responses), r \in FetchOutcomes : FetchSettle(i, r)
    \/ Phase1Gathered
    \/ Phase2Response
    \/ DumpReturn

DumpSpec == DumpInit /\ [][DumpNext]_vars

\* every issued fetch settles in the end (the transport answers, fails or times out),
\* and the coroutine is resumed when what it awaits is ready
DumpLiveSpec ==
    /\ DumpInit
    /\ [][DumpNext]_vars
    /\ WF_vars(\E i \in 1..Len(responses), r \in FetchOutcomes : FetchSettle(i, r))
    /\ WF_vars(Phase1Gathered)
    /\ WF_vars(Phase2Response)
    /\ WF_vars(DumpReturn)

\* validate_login, directly or through the application, between logout and session load
ValNext ==
    \/ \E by \in {"api", "app"}, f \in ProbeFiles : ValidateLogin(by, f)
    \/ \E reply \in ProbeReplies : ProbeStep(reply)
    \/ ValidateExhausted
    \/ vpc = "idle" /\ Logout
    \/ vpc = "idle" /\ LoadSession

ValSpec == Init /\ [][ValNext]_vars

\* the module-level validate_login(token, cookie) next to the methods of the object
WrapNext ==
    \/ \E t \in TokenStates, c \in CookieStates, f \in ProbeFiles : WrapperValidateLogin(t, c, f)
    \/ \E reply \in ProbeReplies : ProbeStep(reply)
    \/ ValidateExhausted
    \/ vpc = "idle" /\ Logout
    \/ vpc = "idle" /\ LoadSession

WrapSpec == Init /\ [][WrapNext]_vars

\* the application: run validates the loaded session, then the login menu or the home menu
AppNext ==
    \/ screen \in {"start", "validating"} /\ called_by = "none" /\ \E f \in ProbeFiles :
           ValidateLogin("app", f)
    \/ screen \in {"start", "validating"} /\ \E reply \in ProbeReplies : ProbeStep(reply)
    \/ screen \in {"start", "validating"} /\ ValidateExhausted
    \/ AppValidated
    \/ screen = "login" /\ login_result = NoLoginResult /\
           \E c \in CookieInputs : \E oauth \in OauthReplies(EnsureSb(c)), api \in ApiReplies(EnsureSb(c)) :
               LoginWithCookie(c, oauth, api)
    \/ screen = "login" /\ login_result = NoLoginResult /\ LoginWithCredentials
    \/ screen = "login" /\ \E reply \in LoginReplies :
           LET c == IF IsLoginSuccess(reply) THEN reply.cookies.s ELSE CookiePlain
           IN \E oauth \in OauthReplies(c), api \in ApiReplies(c) :
                  LoginAttempt(reply, oauth, api)
    \/ AppLoginReturned
    \/ AppQuit
    \/ screen = "home" /\ is_logged_in /\ \E u \in AppSeedLists, m \in AppDumpModes :
           DumpFriends(u, m.uf, m.sp, m.rec)
    \/ screen = "home" /\ \E i \in 1..Len(responses), r \in FetchOutcomes : FetchSettle(i, r)
    \/ screen = "home" /\ Phase1Gathered
    \/ screen = "home" /\ Phase2Response
    \/ screen = "home" /\ DumpReturn
    \/ AppDumpReturned
    \/ AppDumpRaised
    \/ AppLogout

AppSpec == Init /\ [][AppNext]_vars

-----------------------------------------------------------------------------
(* Properties of dump_friends, checked under DumpSpec *)

Count(q, x) == Cardinality({i \in DOMAIN q : q[i] = x})

\* Phase 2 was entered: some Phase-2 request was issued
Phase2Ran == \E i \in DOMAIN requested : requested[i][1] = 2

\* the Phase-2 responses the loop has examined so far
ProcessedResponses ==
    IF Phase2Ran THEN {responses[i] : i \in 1..(next_response - 1)} ELSE {}

\* the friend records (with an id member) of the examined Phase-2 responses
ProcessedFriends ==
    {f \in UNION {Range(r.data) : r \in {x \in ProcessedResponses : ~x.none}} :
        "id" \in DOMAIN f}

\* the "id|name" line of a friend record
LineOf(f) == f.id \o <<"|">> \o (IF "name" \in DOMAIN f THEN f.name ELSE Unknown)

\* the friendId of a written line: the text before the first "|"
RECURSIVE LineId(_)
LineId(line) ==
    IF line = <<>> \/ Head(line) = "|" THEN <<>>
    ELSE <<Head(line)>> \o LineId(Tail(line))

ConfiguredPrefixes == IF sep_prefixes.none THEN {} ELSE Range(sep_prefixes.list)

HasConfiguredPrefix(id) == \E p \in ConfiguredPrefixes : StartsWith(id, p)

TimesWritten(line) == Count(output_lines, line) + Count(unsep_lines, line)

\* a record the prefix filter sends to the unseparated side when no unseparated
\* target was passed
Dropped(f) ==
    /\ ConfiguredPrefixes # {}
    /\ ~HasConfiguredPrefix(f.id)
    /\ unsep_file = "None"

\* C1 as stated: every "id|name" pair of an examined Phase-2 response is in the
\* output files exactly once
C1_WrittenExactlyOnce ==
    \A f \in ProcessedFriends : TimesWritten(LineOf(f)) = 1

\* C1 amended: every "id|name" pair of an examined Phase-2 response is in the output
\* files exactly once, however many responses hold it, unless it is dropped (prefix
\* filter given, no prefix matches, no unseparated target): then it is written nowhere
C1_WrittenOnceUnlessDropped ==
    \A f \in ProcessedFriends :
        TimesWritten(LineOf(f)) = IF Dropped(f) THEN 0 ELSE 1

\* a pair held by two examined responses, written once
C1_Witness ==
    /\ pc = "done"
    /\ Phase2Ran
    /\ \E i, j \in DOMAIN responses :
          /\ i < j
          /\ ~responses[i].none /\ ~responses[j].none
          /\ \E f \in Range(responses[i].data) \cap Range(responses[j].data) :
                "id" \in DOMAIN f /\ TimesWritten(LineOf(f)) = 1

\* C2 as stated: for every filter, the empty list and None included, each main line's
\* friendId starts with a configured prefix and each unseparated line's with none
C2_PrefixPartitionAnyFilter ==
    /\ \A i \in DOMAIN output_lines : HasConfiguredPrefix(LineId(output_lines[i]))
    /\ \A i \in DOMAIN unsep_lines : ~HasConfiguredPrefix(LineId(unsep_lines[i]))

\* C2 amended: for every non-empty filter, each main line's friendId starts with a
\* configured prefix and each unseparated line's with none; with the empty list or
\* None nothing is partitioned and no line goes to the unseparated file
C2_PrefixPartition ==
    IF ConfiguredPrefixes # {}
    THEN C2_PrefixPartitionAnyFilter
    ELSE unsep_lines = <<>>

C2_Witness ==
    /\ pc = "done"
    /\ ConfiguredPrefixes # {}
    /\ output_lines # <<>>
    /\ unsep_lines # <<>>

\* C3: a seed list with no valid entry (empty, or empty identifiers only) makes
\* dump_friends issue no friends-fetch and return (0, 0)
C3_NoValidSeedNoRequest ==
    (\A i \in DOMAIN uids : uids[i] = <<>>) =>
        /\ requested = <<>>
        /\ dump_result \in {NoResult, <<0, 0>>}

LoggedOutState ==
    \/ token = None \/ token = Str(<<>>)
    \/ cookie = None \/ cookie = Str(<<>>)

\* C4: logged out (token or cookie empty or absent), dump_friends returns (0, 0),
\* issues no request and appends to no file
C4_LoggedOutNoWork ==
    LoggedOutState =>
        /\ requested = <<>>
        /\ output_lines = <<>>
        /\ unsep_lines = <<>>
        /\ pc # "idle" => (pc = "done" /\ dump_result = <<0, 0>>)

\* a call with seeds and a token but no cookie has returned
C4_Witness ==
    /\ pc = "done"
    /\ token = SampleToken
    /\ cookie = None
    /\ uids # <<>>
    /\ dump_result = <<0, 0>>

-----------------------------------------------------------------------------
(* Properties of the login operations and the credentials, checked under Spec *)

LoginRequestsTotal == login_requests.proxy + login_requests.timeout + login_requests.other

CredentialsReturned == lpc = "idle" /\ login_result.fn = "credentials"

FirstResponseTransient ==
    \/ first_response.kind = "timeout"
    \/ first_response.kind = "body" /\ first_response.proxy

FirstResponseParsed ==
    /\ first_response.kind = "body"
    /\ ~first_response.proxy
    /\ first_response.json

\* C6: when the first login response is a clean terminal failure (CHECKPOINT,
\* INVALID_CREDENTIALS, a passed-through message, or TOKEN_FAILED after a successful
\* login response) the endpoint was called exactly once and that status is returned
C6_TerminalFailureNotRetried ==
    /\ (lpc = "cred" /\ first_response # NoReply) => FirstResponseTransient
    /\ (CredentialsReturned /\ FirstResponseParsed) =>
          /\ LoginRequestsTotal = 1
          /\ retry_count = 0
          /\ IF first_response.status = "success" /\ ~first_response.cookies.none
             THEN login_result.status.code \in {"SUCCESS", "TOKEN_FAILED"}
             ELSE /\ ~login_result.success
                  /\ login_result.status.code \in
                        {"CHECKPOINT", "INVALID_CREDENTIALS", "MESSAGE", "LOGIN_FAILED"}

\* a successful login response, no token from either extraction: TOKEN_FAILED after
\* one request
C6_Witness ==
    /\ CredentialsReturned
    /\ login_result.status.code = "TOKEN_FAILED"
    /\ first_response.status = "success"
    /\ LoginRequestsTotal = 1
    /\ Len(extract_log) = 2

\* C7: when a login returns success, the token and the cookie of that login are in
\* the session store and in memory
C7_SuccessPersistsBoth ==
    login_result.success =>
        /\ extract_log # <<>>
        /\ cookie = Str(extract_log[Len(extract_log)][2])
        /\ ~token.none /\ token.s # <<>>
        /\ token.s[2] = Account(cookie.s)
        /\ session.token = token
        /\ session.cookie = cookie

\* login_with_credentials succeeded over a session file of another account
C7_Witness ==
    /\ login_result = LoginResult("credentials", TRUE, "SUCCESS")
    /\ session.cookie = Str(CookieWithSb)
    /\ session.token = Str(<<"S", "2">>)

PairPresent(t, c) == ~t.none /\ t.s # <<>> /\ ~c.none /\ c.s # <<>>

PairAbsent(t, c) == t.none /\ c.none

\* C8: in memory and in the session store, token and cookie are both present (and
\* then non-empty and of the same login) or both absent, and is_logged_in is true
\* exactly when both are present
C8_CredentialsPaired ==
    /\ PairPresent(token, cookie) \/ PairAbsent(token, cookie)
    /\ PairPresent(session.token, session.cookie) \/ PairAbsent(session.token, session.cookie)
    /\ PairPresent(token, cookie) => token.s[2] = Account(cookie.s)
    /\ PairPresent(session.token, session.cookie) =>
          session.token.s[2] = Account(session.cookie.s)
    /\ is_logged_in <=> PairPresent(token, cookie)

\* logged out in memory and in the store, after a login of account 2 had replaced the
\* stored credentials of account 1: the extraction log of that login is still there
C8_Witness ==
    /\ PairAbsent(token, cookie)
    /\ PairAbsent(session.token, session.cookie)
    /\ extract_log # <<>>
    /\ Account(extract_log[1][2]) = "2"

-----------------------------------------------------------------------------
(* The Phase-2 target order, checked under DumpSpec *)

\* the identifiers Phase 1 discovers: the non-empty ids of the friend records of the
\* gathered responses that are objects without an "error" member
CandidateSet(resps) ==
    {f.id : f \in {g \in UNION {Range(resps[i].data) :
                                 i \in {j \in DOMAIN resps :
                                          ~resps[j].none /\ ~resps[j].error}} :
                     "id" \in DOMAIN g /\ g.id # <<>>}}

\* q lists its elements from the greatest to the least, none twice
StrictlyDescending(q) == \A i \in 1..(Len(q) - 1) : StrLess(q[i + 1], q[i])

\* the step that ends Phase 1 and starts Phase 2 in recursive mode
Phase1ToPhase2 == pc = "phase1" /\ pc' = "phase2" /\ recursive

\* C11: in recursive mode the Phase-2 target sequence is fixed by the set of identifiers
\* Phase 1 discovered alone: it lists exactly that set, strictly descending (so each
\* identifier once), whatever the order of seeds and responses and whatever duplicates
\* the responses held; and one request per target is issued in that order
C11_TargetsFunctionOfCandidateSet ==
    [][Phase1ToPhase2 =>
          /\ Range(target_uids') = CandidateSet(responses)
          /\ StrictlyDescending(target_uids')
          /\ Len(responses') = Len(target_uids')
          /\ requested' = requested \o [i \in DOMAIN target_uids' |-> <<2, target_uids'[i]>>]
      ]_vars

\* two seeds whose responses held 17 (twice) and then 9 and 7: the targets are 9, 7, 17
C11_Witness ==
    /\ pc = "phase2"
    /\ recursive
    /\ Len(uids) = 2
    /\ target_uids = <<ID9, ID7, ID17>>
    /\ Len(responses) = 3

-----------------------------------------------------------------------------
(* Properties of login_with_cookie, checked under Spec *)

\* the cookie string has a field named "sb" with a value: "sb=" at the start of the
\* string or of a ";"-separated field, followed by a character other than ";"
HasSbField(c) ==
    \E i \in 1..(Len(c) - 3) :
        /\ i = 1 \/ c[i - 1] \in {";", " "}
        /\ c[i] = "s" /\ c[i + 1] = "b" /\ c[i + 2] = "="
        /\ c[i + 3] # ";"

\* the cookie that was passed to login_with_cookie, recovered from a cookie it sent
\* (no cookie a caller passes starts with the synthesized field)
SuppliedCookie(sent) ==
    IF StartsWith(sent, SbPrefix) THEN SubSeq(sent, Len(SbPrefix) + 1, Len(sent)) ELSE sent

\* a call of login_with_cookie has returned
CookieLoginReturned == login_result.fn = "cookie"

\* C12 as stated: after login_with_cookie, every extraction request, and the cookie
\* persisted on success, carries the supplied cookie unchanged when it has the "sb"
\* field and the supplied cookie behind the synthesized field when it lacks it
C12_SbFieldEnsured ==
    CookieLoginReturned =>
        /\ \A i \in DOMAIN extract_log :
              LET sent == extract_log[i][2]
                  supplied == SuppliedCookie(sent)
              IN sent = IF HasSbField(supplied) THEN supplied ELSE SbPrefix \o supplied
        /\ login_result.success =>
              /\ cookie = Str(extract_log[1][2])
              /\ session.cookie = cookie

\* C13: login_with_cookie makes the OAuth-status probe first; it makes the
\* token-resolution call only when the probe yielded no token, and after it; the token
\* adopted is the one the first successful attempt yielded; the status is TOKEN_FAILED
\* exactly when both attempts were made and neither yielded a token, else SUCCESS
C13_PrimaryThenFallback ==
    CookieLoginReturned =>
        LET n == Len(extract_log)
            yielded == {i \in DOMAIN extract_log : Truthy(extract_log[i][3])}
        IN /\ n \in {1, 2}
           /\ extract_log[1][1] = "oauth"
           /\ n = 1 <=> 1 \in yielded
           /\ n = 2 => extract_log[2][1] = "api"
           /\ login_result.success <=> yielded # {}
           /\ login_result.success =>
                 /\ login_result.status = [code |-> "SUCCESS"]
                 /\ token = extract_log[CHOOSE i \in yielded : \A j \in yielded : i <= j][3]
                 /\ session.token = token
           /\ login_result.status = [code |-> "TOKEN_FAILED"] <=> (n = 2 /\ yielded = {})

\* the probe yielded nothing and the fallback yielded the token that was adopted
C13_Witness ==
    /\ CookieLoginReturned
    /\ Len(extract_log) = 2
    /\ extract_log[1][3] = None
    /\ Truthy(extract_log[2][3])
    /\ token = extract_log[2][3]
    /\ login_result.success

-----------------------------------------------------------------------------
(* Classification of a login failure, checked under Spec *)

\* word occurs in message m, letter case ignored (word is in lower case)
Mentions(m, word) ==
    \E i \in 1..(Len(m) - Len(word) + 1) :
        \A j \in 1..Len(word) : LowerChar(m[i + j - 1]) = word[j]

MentionsAny(m, words) == \E w \in words : Mentions(m, w)

\* the first login response was parsed, carries a message and is no success
FirstResponseFailureMessage ==
    /\ CredentialsReturned
    /\ FirstResponseParsed
    /\ ~(first_response.status = "success" /\ Truthy(first_response.cookies))
    /\ ~first_response.message.none

\* C14: a login failure whose message mentions "checkpoint" or "two-factor", in any
\* letter case, is CHECKPOINT; else one that mentions "invalid", "incorrect" or "wrong"
\* is INVALID_CREDENTIALS; CHECKPOINT wins when both kinds occur; any other message is
\* returned as it came
C14_FailureClassification ==
    FirstResponseFailureMessage =>
        LET m == first_response.message.s
            checkpoint == MentionsAny(m, {KwCheckpoint, KwTwoFactor})
            invalid == MentionsAny(m, {KwInvalid, KwIncorrect, KwWrong})
        IN /\ ~login_result.success
           /\ login_result.status =
                 IF checkpoint THEN [code |-> "CHECKPOINT"]
                 ELSE IF invalid THEN [code |-> "INVALID_CREDENTIALS"]
                 ELSE [code |-> "MESSAGE", text |-> m]
           /\ m = MsgCheckpoint => login_result.status = [code |-> "CHECKPOINT"]
           /\ m = MsgBoth => login_result.status = [code |-> "CHECKPOINT"]
           /\ m = MsgWrong => login_result.status = [code |-> "INVALID_CREDENTIALS"]
           /\ m = MsgOther => login_result.status = [code |-> "MESSAGE", text |-> MsgOther]

\* "Invalid two-factor" mentions a word of each kind and is classified CHECKPOINT
C14_Witness ==
    /\ FirstResponseFailureMessage
    /\ first_response.message.s = MsgBoth
    /\ login_result.status = [code |-> "CHECKPOINT"]

-----------------------------------------------------------------------------
(* Properties of validate_login, checked under ValSpec *)

\* the serialized response mentions a block keyword, letter case ignored
HasBlockWord(reply) == \E w \in ErrorWords : Mentions(Serialized(reply), w)

\* a parsed response with a non-empty friends array and no block keyword
NonEmptyUnblocked(reply) ==
    /\ reply.kind = "json"
    /\ reply.friends # <<>>
    /\ ~HasBlockWord(reply)

\* the identifiers of the non-blank lines of the probe file, in file order
Candidates(lines) ==
    SelectSeq([i \in DOMAIN lines |-> Strip(lines[i])], LAMBDA u : u # <<>>)

\* the identifiers requested so far by the current call, in order
RequestedUids == [i \in DOMAIN probe_log |-> probe_log[i].uid]

IsPrefix(p, q) == Len(p) <= Len(q) /\ SubSeq(q, 1, Len(p)) = p

\* the ids of a friends array (empty for a record that has none)
IdsOf(friends) ==
    [i \in DOMAIN friends |-> IF "id" \in DOMAIN friends[i] THEN friends[i].id ELSE <<>>]

\* the step on which validate_login returns from inside the loop
ReturnsFromLoop == vpc = "loop" /\ vpc' = "idle" /\ validate_result'.success

\* C15 as stated: the probes are requested in file order; a response with a non-empty
\* friends array and no block keyword is the last one requested: the call returns
\* (True, its friend ids) on it, and that list is then in the session store
C15_StopsAtFirstNonEmptyFriends ==
    [][/\ uid_file'.state = "read" =>
             IsPrefix(RequestedUids', Candidates(uid_file'.lines))
       /\ \A i \in DOMAIN probe_log' :
             NonEmptyUnblocked(probe_log'[i].reply) =>
                 /\ i = Len(probe_log')
                 /\ vpc' = "idle"
                 /\ validate_result' =
                       ValidateResult(TRUE, IdsOf(probe_log'[i].reply.friends))
       /\ ReturnsFromLoop =>
             /\ NonEmptyUnblocked(probe_log'[Len(probe_log')].reply)
             /\ session'.login_check = validate_result'.friend_ids
      ]_vars

\* the i-th request of the current call got a parsed response that mentions a block
\* keyword
BlockedAt(i) == probe_log[i].reply.kind = "json" /\ HasBlockWord(probe_log[i].reply)

\* validate_login has returned success on its last request
ReturnedSuccess ==
    /\ vpc = "idle"
    /\ "none" \notin DOMAIN validate_result
    /\ validate_result.success

\* C16: a probe response that mentions a block keyword marks the validation blocked and
\* is never the response validation succeeds on, whether or not it carries friends; the
\* loop goes on after it: the next probe identifier of the file, if there is one, is
\* requested
C16_BlockedNeverSuccess ==
    \A i \in DOMAIN probe_log :
        BlockedAt(i) =>
            /\ blocked_detected
            /\ ~(i = Len(probe_log) /\ ReturnedSuccess)
            /\ (i = Len(probe_log) /\ vpc = "idle") =>
                  /\ i = Len(Candidates(uid_file.lines))
                  /\ validate_result = ValidateResult(FALSE, <<>>)

\* the first probe was answered with friends and a block keyword, the second was
\* requested and validation succeeded on it
C16_Witness ==
    /\ Len(probe_log) = 2
    /\ probe_log[1].reply = ProbeBlockedFriends
    /\ probe_log[2].reply = ProbeFriends
    /\ ReturnedSuccess
    /\ validate_result.friend_ids = <<ID7>>

\* the response makes the loop return success: friends, each with an id, no block keyword
Succeeds(reply) ==
    /\ NonEmptyUnblocked(reply)
    /\ \A i \in DOMAIN reply.friends : "id" \in DOMAIN reply.friends[i]

\* every probe identifier of the file was requested, and no response succeeded
AllTriedNoneSucceeded(file, log) ==
    /\ file.state = "read"
    /\ [i \in DOMAIN log |-> log[i].uid] = Candidates(file.lines)
    /\ \A i \in DOMAIN log : ~Succeeds(log[i].reply)

Failure == ValidateResult(FALSE, <<>>)

\* C17 as stated: a call of validate_login has returned (False, []) exactly when every
\* probe identifier of the file was requested and no response succeeded
C17_FailureIffAllProbesFailed ==
    (vpc = "idle" /\ called_by = "api") =>
        (validate_result = Failure <=> AllTriedNoneSucceeded(uid_file, probe_log))

\* C17: when the loop over the probe file ends (the caller was logged in and the file
\* has a line), the result is (False, []) exactly when every probe identifier was
\* requested and no response succeeded; no blocked, empty, timed-out or failed probe
\* ends the loop before that
C17_LoopFailsOnlyWhenExhausted ==
    [][(vpc = "loop" /\ vpc' = "idle") =>
          /\ validate_result' = Failure <=> AllTriedNoneSucceeded(uid_file', probe_log')
          /\ validate_result' # Failure =>
                /\ validate_result'.success
                /\ Succeeds(probe_log'[Len(probe_log')].reply)
      ]_vars

\* two probe identifiers; the first request timed out, the second was blocked:
\* both were requested and the result is (False, [])
C17_Witness ==
    /\ vpc = "idle"
    /\ validate_result = Failure
    /\ Len(probe_log) = 2
    /\ probe_log[1].reply = ProbeTimeout
    /\ probe_log[2].reply = ProbeBlocked
    /\ blocked_detected

\* C18: a call of validate_login, directly or by the application, made logged in when
\* no probe file is found returns (True, []), enters no loop and makes no request, and
\* leaves token, cookie and the session store (its login_check list included) as they were
C18_AbsentFileSkips ==
    [][\A by \in {"api", "app"} :
          (Truthy(token) /\ Truthy(cookie) /\ ValidateLogin(by, FileAbsent)) =>
              /\ validate_result' = ValidateResult(TRUE, <<>>)
              /\ vpc' = "idle"
              /\ probe_log' = <<>>
              /\ token' = token
              /\ cookie' = cookie
              /\ session' = session
      ]_vars

\* an earlier validation stored the list [7]; a later call that finds no probe file
\* returned (True, []) and the stored list is still [7]
C18_Witness ==
    /\ vpc = "idle"
    /\ called_by = "app"
    /\ uid_file = FileAbsent
    /\ validate_result = ValidateResult(TRUE, <<>>)
    /\ probe_log = <<>>
    /\ Truthy(token)
    /\ Truthy(cookie)
    /\ session.login_check = <<ID7>>

-----------------------------------------------------------------------------
(* Destruction of the credentials, checked under ValSpec *)

\* no credential in the object nor in the session store
Destroyed ==
    /\ token = None
    /\ cookie = None
    /\ session.token = None
    /\ session.cookie = None

\* the step on which a validation run by the application returns failure
AppValidationFails ==
    /\ called_by = "app"
    /\ vpc = "loop"
    /\ vpc' = "idle"
    /\ validate_result' = Failure

\* C20: after logout(), and after a validation of the current session that the
\* application ran and that failed, token and cookie are None in the object and in the
\* session store (so is_logged_in is false), and a session load in that state yields
\* no credentials
C20_CredentialsDestroyed ==
    [][/\ Logout => Destroyed'
       /\ AppValidationFails => Destroyed'
       /\ (Destroyed /\ LoadSession) => Destroyed'
      ]_vars

\* the application validated a stored session, every probe failed, and the credentials
\* are gone from the object and from the store
C20_Witness ==
    /\ vpc = "idle"
    /\ called_by = "app"
    /\ validate_result = Failure
    /\ probe_log # <<>>
    /\ Destroyed
    /\ ~(Truthy(token) /\ Truthy(cookie))

-----------------------------------------------------------------------------
(* Escaping exceptions, checked under DumpSpec *)

\* C19 as stated, for dump_friends: whatever the fetches give, the call never ends with
\* an exception
C19_NoExceptionEscapes == pc # "raised"

-----------------------------------------------------------------------------
(* Network failures of the login request, checked under Spec *)

\* the first login request raised an exception other than a timeout (a connection
\* failure, for one)
FirstRequestRaised == first_response.kind = "exception"

\* the first login response carried the proxy's connector error in its body
FirstResponseProxyError == first_response.kind = "body" /\ first_response.proxy

\* C21 as stated: a login request that fails with a network error other than a timeout
\* is retried, not answered with a terminal status after one attempt
C21_NetworkErrorRetried ==
    (CredentialsReturned /\ FirstRequestRaised) => LoginRequestsTotal > 1

\* C21: a connector failure reported in the body of the login response is retried and
\* counted against the ceiling like a timeout; a network error other than a timeout
\* that the request raises ends the call after that one attempt with the status ERROR
C21_OnlyBodyConnectorFailureRetried ==
    /\ (FirstResponseProxyError /\ lpc = "cred") => retry_count = LoginRequestsTotal
    /\ (FirstResponseProxyError /\ CredentialsReturned) =>
          /\ LoginRequestsTotal > 1
          /\ retry_count >= 1
          /\ retry_count = login_requests.proxy + login_requests.timeout
    /\ (FirstRequestRaised /\ CredentialsReturned) =>
          /\ LoginRequestsTotal = 1
          /\ retry_count = 0
          /\ login_result = LoginResult("credentials", FALSE, "ERROR")

\* the first request raised a connection error: ERROR after one request
C21_Witness ==
    /\ CredentialsReturned
    /\ FirstRequestRaised
    /\ login_result.status.code = "ERROR"
    /\ LoginRequestsTotal = 1

-----------------------------------------------------------------------------
(* Phase 2 of dump_friends step by step, checked under DumpSpec *)

\* the side the prefix filter sends a friend record to
SideOf(f) ==
    IF ConfiguredPrefixes = {} \/ HasConfiguredPrefix(f.id) THEN "main" ELSE "unsep"

\* the elements of q at the indices in I, in ascending order of index
RECURSIVE Pick(_, _)
Pick(q, I) ==
    IF I = {} THEN <<>>
    ELSE LET i == CHOOSE x \in I : \A y \in I : x <= y
         IN <<q[i]>> \o Pick(q, I \ {i})

\* the lines response r adds to a file of one side: the lines of its records that have
\* an id and go to that side, not yet in the file, each at its first occurrence
NewLinesOf(r, side, file) ==
    LET recs == r.data
        ok(i) == "id" \in DOMAIN recs[i] /\ SideOf(recs[i]) = side
        first == {i \in DOMAIN recs :
                     /\ ok(i)
                     /\ LineOf(recs[i]) \notin Range(file)
                     /\ \A j \in 1..(i - 1) : ok(j) => LineOf(recs[j]) # LineOf(recs[i])}
    IN Pick([i \in DOMAIN recs |-> IF ok(i) THEN LineOf(recs[i]) ELSE <<>>], first)

\* the step that examines the Phase-2 response of target k = next_response
ExaminesResponse == pc = "phase2" /\ next_response' = next_response + 1

\* C22: the step that examines the response of target k leaves the lines already in
\* the files in place and appends to each file the lines newly accepted from that
\* response, before the response of target k+1 is examined; so the files hold, in
\* target order, the lines accepted from targets 1..k, and the counters count them
C22_IncrementalPersistence ==
    [][/\ ExaminesResponse =>
             LET r == responses[next_response]
             IN /\ output_lines' = output_lines \o (IF r.none THEN <<>>
                                                    ELSE NewLinesOf(r, "main", output_lines))
                /\ unsep_lines' = unsep_lines \o (IF r.none \/ unsep_file = "None" THEN <<>>
                                                  ELSE NewLinesOf(r, "unsep", unsep_lines))
       /\ line_count' = Len(output_lines')
       /\ line_count_un' = Len(unsep_lines')
      ]_vars

\* two targets examined: the line of the first target's response precedes the new
\* line of the second one's, and the repeated line is not appended again
C22_Witness ==
    /\ pc = "phase2"
    /\ next_response = 3
    /\ responses = <<RespAnn, RespBoAnn>>
    /\ output_lines = <<LineOf([id |-> ID7, name |-> Ann]), LineOf([id |-> ID9, name |-> Bo])>>
    /\ line_count = 2

\* a fetch of the running phase has not settled yet
Outstanding == \E i \in DOMAIN responses : responses[i] = Pending

\* C23: while a fetch of the running phase is outstanding, nothing happens but fetches
\* settling: no request is issued (so no Phase-2 request before every Phase-1 fetch has
\* settled), no seen-set, counter, candidate list or file changes, no response is
\* examined, and the phase does not end
C23_PhaseBarrier ==
    [][Outstanding =>
          /\ pc' = pc
          /\ requested' = requested
          /\ all_friend_ids' = all_friend_ids
          /\ target_uids' = target_uids
          /\ next_response' = next_response
          /\ written_main' = written_main
          /\ written_unsep' = written_unsep
          /\ output_lines' = output_lines
          /\ unsep_lines' = unsep_lines
          /\ line_count' = line_count
          /\ line_count_un' = line_count_un
          /\ dump_result' = dump_result
          /\ \A i \in DOMAIN responses : responses[i] # Pending => responses'[i] = responses[i]
      ]_vars

\* Phase 2 with two targets: the second fetch has settled, the first is outstanding,
\* and nothing has been examined or written
C23_Witness ==
    /\ pc = "phase2"
    /\ Len(responses) = 2
    /\ responses[1] = Pending
    /\ responses[2] = RespAnn
    /\ next_response = 1
    /\ output_lines = <<>>
    /\ written_main = {}

\* the main and unseparated files after the Phase-2 responses k.. of resps have been
\* examined in list order, starting from the files main and unsep
RECURSIVE FilesAfter(_, _, _, _)
FilesAfter(resps, k, main, unsep) ==
    IF k > Len(resps) THEN [main |-> main, unsep |-> unsep]
    ELSE LET r == resps[k]
         IN IF r.none THEN FilesAfter(resps, k + 1, main, unsep)
            ELSE FilesAfter(resps, k + 1,
                            main \o NewLinesOf(r, "main", main),
                            IF unsep_file = "None" THEN unsep
                            ELSE unsep \o NewLinesOf(r, "unsep", unsep))

\* C24: the response of the fetch of target i becomes element i of the gathered list
\* whenever it completes, and a completion changes no seen-set, counter or file; the
\* files and the counts dump_friends returns are those of examining the per-target
\* responses in target order. So they do not depend on the order of completion
C24_CompletionOrderIrrelevant ==
    [][/\ \A i \in DOMAIN responses : \A r \in FetchOutcomes :
             FetchSettle(i, r) =>
                 /\ responses'[i] = r
                 /\ \A j \in DOMAIN responses \ {i} : responses'[j] = responses[j]
       /\ Outstanding =>
             /\ written_main' = written_main
             /\ written_unsep' = written_unsep
             /\ line_count' = line_count
             /\ line_count_un' = line_count_un
       /\ (pc = "phase2" /\ pc' = "done") =>
             LET files == FilesAfter(responses', 1, <<>>, <<>>)
             IN /\ output_lines' = files.main
                /\ unsep_lines' = files.unsep
                /\ dump_result' = <<Len(files.main), Len(files.unsep)>>
      ]_vars

\* three targets answered with Bo and Ann, nothing, and Ann: two lines, in target order
C24_Witness ==
    /\ pc = "done"
    /\ responses = <<RespBoAnn, None, RespAnn>>
    /\ output_lines = <<LineOf([id |-> ID9, name |-> Bo]), LineOf([id |-> ID7, name |-> Ann])>>
    /\ dump_result = <<2, 0>>

\* the gathered responses without the fetches that gave no response
Answered(resps) == SelectSeq(resps, LAMBDA r : ~r.none)

\* C25: examining a target whose fetch gave no response changes no file, seen-set or
\* counter and the loop goes on to the next target; when a response is examined, every
\* record of it that has an id and a file to go to is in the files afterwards, also
\* when a record without an id precedes it; and the files dump_friends leaves are those
\* the answered targets alone would have produced
C25_FailedFetchAndBadRecordIsolated ==
    [][/\ ExaminesResponse =>
             LET r == responses[next_response]
             IN IF r.none
                THEN /\ pc' = "phase2"
                     /\ output_lines' = output_lines
                     /\ unsep_lines' = unsep_lines
                     /\ written_main' = written_main
                     /\ written_unsep' = written_unsep
                     /\ line_count' = line_count
                     /\ line_count_un' = line_count_un
                ELSE \A i \in DOMAIN r.data :
                         ("id" \in DOMAIN r.data[i] /\ ~Dropped(r.data[i])) =>
                             LineOf(r.data[i]) \in Range(IF SideOf(r.data[i]) = "main"
                                                         THEN output_lines' ELSE unsep_lines')
       /\ (pc = "phase2" /\ pc' = "done") =>
             LET files == FilesAfter(Answered(responses), 1, <<>>, <<>>)
             IN /\ output_lines' = files.main
                /\ unsep_lines' = files.unsep
                /\ dump_result' = <<Len(files.main), Len(files.unsep)>>
      ]_vars

\* a failed fetch between two answered ones, one of them with a record without id
\* followed by records that were written
C25_Witness ==
    /\ pc = "done"
    /\ responses = <<RespOdd, None, RespAnn>>
    /\ sep_prefixes.none
    /\ output_lines = <<LineOf([id |-> ID17]), LineOf([id |-> <<>>, name |-> Bo]),
                        LineOf([id |-> ID7, name |-> Ann])>>
    /\ dump_result = <<3, 0>>

\* the request log of a dump that passed the login check: one Phase-1 request per entry
\* of the seed list, in order, then (once Phase 2 started) one Phase-2 request per entry
\* of the target list, in order; and one result slot per request of the running phase
RequestLogShape ==
    (pc # "idle" /\ is_logged_in) =>
        LET n == Len(uids)
            m == Len(requested) - n
        IN /\ m >= 0
           /\ \A i \in 1..n : requested[i] = <<1, uids[i]>>
           /\ ~Phase2Ran => (m = 0 /\ Len(responses) = n)
           /\ Phase2Ran => (m = Len(target_uids) /\ Len(responses) = m)
           /\ \A i \in 1..m : requested[n + i] = <<2, target_uids[i]>>
           /\ (Phase2Ran /\ recursive) => m = Cardinality(Range(target_uids))

\* C26: the request log always has that shape; it changes only when a phase starts, so
\* no completion (failed or not) and no examined response leads to another request; and
\* a recursive dump that reaches Phase 2 has issued |seeds| Phase-1 requests plus one
\* request per distinct identifier Phase 1 discovered
C26_NoRetryOneRequestPerTarget ==
    [][/\ RequestLogShape'
       /\ requested' # requested =>
             \/ pc = "idle" /\ pc' = "phase1"
             \/ pc = "phase1" /\ pc' = "phase2"
       /\ \A i \in DOMAIN responses :
             (responses[i] = Pending /\ responses'[i] = None) =>
                 (requested' = requested /\ Len(responses') = Len(responses))
       /\ Phase1ToPhase2 =>
             Len(requested') = Len(uids) + Cardinality(CandidateSet(responses))
       /\ (pc = "phase1" /\ pc' = "done") =>
             (CandidateSet(responses) = {} /\ requested' = requested)
      ]_vars

\* a recursive dump of two seeds that found three candidates: five requests, although
\* a Phase-2 fetch gave no response
C26_Witness ==
    /\ pc = "done"
    /\ recursive
    /\ Len(uids) = 2
    /\ Len(requested) = 5
    /\ Len(target_uids) = 3
    /\ responses[2] = None

\* C27: a dump with recursive = FALSE that passed the login check never has more
\* friends-fetches in its request log than seed identifiers, and has returned with
\* exactly one per seed identifier
C27_SimpleModeOneFetchPerSeed ==
    (pc # "idle" /\ ~recursive /\ is_logged_in) =>
        /\ Len(requested) <= Len(uids)
        /\ pc = "done" => Len(requested) = Len(uids)

\* C28: in a dump called without a prefix filter (sep_prefixes None or an empty list)
\* every record with an id of an examined response has its line in the main file,
\* the unseparated file, seen-set and counter stay empty, and the second count
\* returned is 0, also when an unseparated target was passed
C28_NoFilterAllToMain ==
    (pc # "idle" /\ ~ListTruthy(sep_prefixes)) =>
        /\ \A f \in ProcessedFriends : LineOf(f) \in Range(output_lines)
        /\ unsep_lines = <<>>
        /\ written_unsep = {}
        /\ line_count_un = 0
        /\ Len(output_lines) = line_count
        /\ pc = "done" => dump_result[2] = 0

\* an empty prefix list and an unseparated target: two lines in main, none elsewhere
C28_Witness ==
    /\ pc = "done"
    /\ sep_prefixes = GivenList(<<>>)
    /\ unsep_file = "unsep.txt"
    /\ Phase2Ran
    /\ Len(output_lines) = 2
    /\ dump_result = <<2, 0>>

-----------------------------------------------------------------------------
(* The advice after an exhausted validation, checked under ValSpec *)

\* the step in which the loop of validate_login ends without a success
Exhausts == vpc = "loop" /\ vpc' = "idle" /\ ~validate_result'.success

\* C29: when the loop ends without a success the result is (False, []) whether or not
\* a probe was classified as blocked, and the same clean-up follows in both cases; the
\* classification only selects the advice: "blocked" when every probe made was blocked,
\* "other" when no probe made was blocked
C29_BlockedOnlySelectsAdvice ==
    [][Exhausts =>
          /\ validate_result' = ValidateResult(FALSE, <<>>)
          /\ Destroyed' = (called_by = "app")
          /\ advisory' \in {"blocked", "other"}
          /\ (probe_log # <<>> /\ \A i \in DOMAIN probe_log : BlockedAt(i)) =>
                 advisory' = "blocked"
          /\ (\A i \in DOMAIN probe_log : ~BlockedAt(i)) => advisory' = "other"
      ]_vars

\* two probes, both blocked: (False, []) and the "blocked" advice
C29_Witness ==
    /\ vpc = "idle"
    /\ validate_result = ValidateResult(FALSE, <<>>)
    /\ Len(probe_log) = 2
    /\ \A i \in DOMAIN probe_log : BlockedAt(i)
    /\ advisory = "blocked"

-----------------------------------------------------------------------------
(* Token extraction inside login_with_credentials, checked under Spec *)

\* login_with_credentials has returned after extracting with the cookie of a
\* successful response
CredentialsExtracted == CredentialsReturned /\ extract_log # <<>>

\* C30: after a successful login response login_with_credentials extracts as
\* login_with_cookie does: every extraction request carries a cookie with the "sb"
\* field, the OAuth-status probe comes first and the token-resolution call second, only
\* when the probe yielded nothing, both with the same cookie, and the cookie persisted
\* on success is the one that was sent
C30_CredentialsUseCookiePath ==
    CredentialsExtracted =>
        LET n == Len(extract_log)
        IN /\ \A i \in 1..n : HasSbField(extract_log[i][2])
           /\ n \in {1, 2}
           /\ extract_log[1][1] = "oauth"
           /\ n = 2 => /\ extract_log[2][1] = "api"
                       /\ ~Truthy(extract_log[1][3])
                       /\ extract_log[2][2] = extract_log[1][2]
           /\ login_result.success =>
                 /\ cookie = Str(extract_log[1][2])
                 /\ session.cookie = cookie

-----------------------------------------------------------------------------
(* The retry ceiling of login_with_credentials, checked under Spec *)

\* C32: every request of a login_with_credentials call either ends the call with a
\* result or meets a proxy-error body or a timeout and adds one to the one retry
\* counter, which stays below MAX_API_RETRIES (10) while the call runs; so the counter
\* equals the number of requests that met either condition, the requests of one call
\* number at most 10 whatever the mix, and the tenth request ends the call
C32_SharedRetryCeiling ==
    [][/\ retry_count' = login_requests'.proxy + login_requests'.timeout
       /\ LoginRequestsTotal' <= MAX_API_RETRIES
       /\ lpc' = "cred" => LoginRequestsTotal' < MAX_API_RETRIES
       /\ lpc = "cred" =>
             /\ LoginRequestsTotal' = LoginRequestsTotal + 1
             /\ lpc' = "cred" => (retry_count' = retry_count + 1 /\ login_requests'.other = 0)
             /\ lpc' # "cred" => (CredentialsReturned' /\ login_result' # NoLoginResult)
      ]_vars

\* nine requests that met timeouts and proxy errors, then a tenth that was answered
C32_Witness ==
    /\ CredentialsReturned
    /\ login_requests.timeout = 5
    /\ login_requests.proxy = 4
    /\ login_requests.other = 1
    /\ login_result.status.code # "MAX_RETRIES_EXCEEDED"

-----------------------------------------------------------------------------
(* The counts of dump_friends, checked under DumpSpec *)

\* the counters equal the numbers of lines appended to the two files so far
CountsMatchFiles == line_count = Len(output_lines) /\ line_count_un = Len(unsep_lines)

\* dump_friends returned the numbers of lines it appended
ReturnMatchesFiles == pc = "done" => dump_result = <<Len(output_lines), Len(unsep_lines)>>

\* C33 as stated: the counters equal the lines appended at every point and at return,
\* and every line accepted into a seen-set is written to its file and counted
C33_CountsEqualWritten ==
    /\ CountsMatchFiles
    /\ ReturnMatchesFiles
    /\ written_main = Range(output_lines)
    /\ written_unsep = Range(unsep_lines)
    /\ Cardinality(written_main) = line_count
    /\ Cardinality(written_unsep) = line_count_un

\* C33, amended: the counters equal the lines appended after every examined response,
\* they never decrease, and the pair returned is the pair of counters; every line
\* accepted into written_main is written and counted, and so is every line accepted
\* into written_unsep when an unseparated target was passed; without such a target
\* those lines are neither written nor counted
C33_CountsEqualWrittenWhenTargetGiven ==
    [][/\ CountsMatchFiles'
       /\ ReturnMatchesFiles'
       /\ line_count' >= line_count
       /\ line_count_un' >= line_count_un
       /\ written_main' = Range(output_lines')
       /\ Cardinality(written_main') = line_count'
       /\ IF unsep_file' = "None"
          THEN unsep_lines' = <<>> /\ line_count_un' = 0
          ELSE /\ written_unsep' = Range(unsep_lines')
               /\ Cardinality(written_unsep') = line_count_un'
      ]_vars

\* a dump that wrote to both files in more than one step and returned both counts
C33_Witness ==
    /\ pc = "done"
    /\ Phase2Ran
    /\ dump_result = <<2, 2>>
    /\ Len(output_lines) = 2
    /\ Len(unsep_lines) = 2
    /\ Cardinality({i \in DOMAIN responses : ~responses[i].none /\ responses[i].data # <<>>}) >= 2

-----------------------------------------------------------------------------
(* The two output files of one dump, checked under DumpSpec *)

\* the friendIds of the lines of a file
IdsIn(file) == {LineId(file[i]) : i \in DOMAIN file}

\* C34: within one invocation no line is in both output files nor in both seen-sets,
\* and no friendId has a line in the main file and a line in the unseparated file
C34_OutputsDisjoint ==
    /\ Range(output_lines) \cap Range(unsep_lines) = {}
    /\ written_main \cap written_unsep = {}
    /\ IdsIn(output_lines) \cap IdsIn(unsep_lines) = {}
    /\ {LineId(l) : l \in written_main} \cap {LineId(l) : l \in written_unsep} = {}

\* both files were written, and friendId 9 came with two names: both lines are in main
C34_Witness ==
    /\ pc = "done"
    /\ unsep_lines # <<>>
    /\ LineOf([id |-> ID9, name |-> Bo]) \in Range(output_lines)
    /\ LineOf([id |-> ID9, name |-> Ann]) \in Range(output_lines)

-----------------------------------------------------------------------------
(* The frame of a failed login, checked under Spec *)

\* C35: no step of a login operation that does not return success changes the token or
\* the cookie in memory or the stored token, cookie and login_check; so when
\* login_with_cookie or login_with_credentials returns (False, status) they are what
\* they were before the call
C35_FailedLoginChangesNothing ==
    [][/\ (lpc = "idle" /\ lpc' = "cred") => UNCHANGED authVars
       /\ (lpc = "cred" /\ ~(lpc' = "idle" /\ login_result'.success)) => UNCHANGED authVars
       /\ (lpc = "idle" /\ login_result'.fn = "cookie" /\ ~login_result'.success) =>
             UNCHANGED authVars
      ]_vars

\* logged in from the store, then a credentials login that found no token: the stored
\* credentials are still in place
C35_Witness ==
    /\ CredentialsReturned
    /\ login_result.status.code = "TOKEN_FAILED"
    /\ Len(extract_log) = 2
    /\ session = StoredSession
    /\ token = StoredSession.token
    /\ cookie = StoredSession.cookie

-----------------------------------------------------------------------------
(* Validation without a request, checked under ValSpec *)

\* C37: a call of validate_login made logged in that returns without entering the
\* loop returns success, and a loop that ends in (False, []) has issued at least one
\* probe request; so no call that made no request returns failure or leaves the
\* credentials destroyed
C37_FailureOnlyAfterARequest ==
    [][/\ \A by \in {"api", "app"} : \A f \in ProbeFiles :
             (is_logged_in /\ ValidateLogin(by, f) /\ vpc' = "idle") =>
                 (validate_result'.success /\ UNCHANGED authVars)
       /\ (vpc = "loop" /\ vpc' = "idle" /\ probe_log' = <<>>) =>
             /\ validate_result' # Failure
             /\ UNCHANGED authVars
      ]_vars

-----------------------------------------------------------------------------
(* Simple mode and the first fetch of the seeds, checked under DumpSpec *)

\* C38: a dump with recursive = FALSE of a non-empty seed list that passed the login
\* check returns only after the fetches of the seed list that feed the output were
\* issued and examined, and its files and counts are those of the responses to these
\* fetches, whatever the earlier fetches of the seeds returned
C38_SimpleModeResultFromOutputFetches ==
    (pc = "done" /\ ~recursive /\ is_logged_in /\ uids # <<>>) =>
        /\ Phase2Ran
        /\ LET files == FilesAfter(responses, 1, <<>>, <<>>)
           IN /\ output_lines = files.main
              /\ unsep_lines = files.unsep
              /\ dump_result = <<Len(files.main), Len(files.unsep)>>

-----------------------------------------------------------------------------
(* Termination of dump_friends, checked under DumpLiveSpec *)

\* dump_friends has been called and has not ended
DumpRunning == pc \in {"phase1", "phase2"}

\* C39: when every issued fetch settles, a running dump_friends call eventually
\* returns its pair of counts, for every seed list and in both modes
C39_EventuallyReturnsCounts ==
    DumpRunning ~> (pc = "done" /\ dump_result # NoResult)

-----------------------------------------------------------------------------
(* Memory and session store, checked under WrapSpec *)

\* no operation of the object or of the module is under way
NoOperationRunning == vpc = "idle" /\ lpc = "idle" /\ pc \in {"idle", "done"}

\* C36: whenever no operation is under way, the token and the cookie of the API object
\* equal the token and the cookie held in the session store
C36_MemoryEqualsStore ==
    NoOperationRunning => (token = session.token /\ cookie = session.cookie)

-----------------------------------------------------------------------------
(* The application flow, checked under AppSpec *)

\* C31: dump_friends is called, and a friends-fetch is issued, only from the home menu,
\* logged in, with the credentials for which validate_login last returned success; the
\* home menu is entered and stayed in only with such credentials; and whenever the
\* token or the cookie changes (login, logout, failed validation) no credentials count
\* as confirmed until a validation succeeds again
C31_DumpOnlyAfterValidation ==
    [][/\ (pc = "idle" /\ pc' # "idle") =>
             (screen = "home" /\ is_logged_in /\ confirmed = Creds(token, cookie))
       /\ (requested' # requested /\ requested' # <<>>) =>
             (is_logged_in /\ confirmed = Creds(token, cookie) /\ UNCHANGED authVars)
       /\ screen' = "home" => (is_logged_in' /\ confirmed' = Creds(token', cookie'))
       /\ (token' # token \/ cookie' # cookie) => confirmed' = Unconfirmed
      ]_vars

\* a dump in flight in the home menu, with credentials of a login made in this run that
\* a probe of validate_login confirmed
C31_Witness ==
    /\ screen = "home"
    /\ pc = "phase2"
    /\ requested # <<>>
    /\ session.login_check # <<>>
    /\ token # StoredSession.token
    /\ confirmed = Creds(token, cookie)

====
